---------------------------- MODULE Spec2Model ----------------------------
(***************************************************************************)
(* Model of the indicator/signal engine (TechnicalAnalyzer) and of the     *)
(* backtesting simulator (Backtester.run_backtest) of AI-Stock-Assistance. *)
(*                                                                         *)
(* Arithmetic.  The source computes in IEEE doubles (pandas/numpy).  Here  *)
(* closes are whole numbers, and every quantity that is a quotient of      *)
(* integers is kept as an exact fraction [num, den] and compared by cross  *)
(* multiplication.  Signal strength is kept in hundredths (0.3 -> 30): for *)
(* all 81 combinations of the four rule families the double obtained by    *)
(* the source's += / -= sequence compares with 0.2, 0.3, 0.4 (and their    *)
(* negatives) exactly as the decimal sum does.  The exponential moving     *)
(* averages, whose exact denominators grow as (span+1)^n, are kept in      *)
(* fixed point with FixedScale units per price unit, rounding down.  The   *)
(* risk/reward ratio, whose comparison with min_ratio depends on the       *)
(* rounding of the doubles, is also computed bit for bit in binary64.      *)
(* Python indices are 0-based; sequences here are 1-based, so the bar with *)
(* Python index i is data[i + 1].                                          *)
(***************************************************************************)
EXTENDS Integers, Sequences, FiniteSets, TLC

VARIABLES
    data,               \* the 'close' column of the DataFrame passed in
    initial_capital,    \* Backtester.initial_capital
    position_size_pct,  \* run_backtest argument, in percent (0.10 -> 10)
    i,                  \* loop index of run_backtest (0-based)
    capital,            \* local: cash
    position,           \* local: number of shares held
    entry_price,        \* local
    trades,             \* local: list of trade dicts
    equity_curve,       \* local: list of portfolio values
    results,            \* the dict run_backtest returns (<<>> until then)
    analysis,           \* the dict analyze_stock returns (<<>> until then)
    pc,                 \* position in the modelled call
    snapshot,           \* _generate_signals argument `indicators`
    generated,          \* the dict _generate_signals returns (<<>> until then)
    rsi_period,         \* calculate_rsi argument `period`
    rsi_series,         \* the series calculate_rsi returns (<<>> until then)
    risk_config,        \* RiskManager: max_position_size, max_daily_loss,
                        \* stop_loss_pct (percent) and max_positions
    daily_pnl,          \* RiskManager.daily_pnl
    starting_portfolio_value,   \* RiskManager.starting_portfolio_value
    last_call,          \* the last RiskManager call: its arguments and result
    account,            \* PortfolioManager.account
    analyses,           \* rank_opportunities argument
    min_ratio,          \* rank_opportunities argument, in hundredths
    opportunities,      \* rank_opportunities result, allocate_capital argument
    available_capital,  \* allocate_capital argument
    open_positions,     \* len(self.alpaca.get_positions())
    diversify,          \* allocate_capital argument
    slot,               \* allocate_capital: index i of the loop
    remaining_capital,  \* allocate_capital local
    allocations,        \* allocate_capital local and result
    symbols,            \* scan_watchlist argument
    feed,               \* what AlpacaClient returns for each symbol
    scan_index,         \* scan_watchlist: position of the for loop
    scan_results,       \* scan_watchlist: local results, and the returned list
    previous            \* an earlier run_backtest call: its data and results

\* the state of the calls modelled apart from run_backtest and analyze_stock
sigVars == <<snapshot, generated>>
rsiVars == <<rsi_period, rsi_series>>
riskVars == <<risk_config, daily_pnl, starting_portfolio_value, last_call>>
rankVars == <<account, analyses, min_ratio, opportunities>>
allocVars == <<available_capital, open_positions, diversify, slot,
               remaining_capital, allocations>>
scanVars == <<symbols, feed, scan_index, scan_results>>
otherVars == <<sigVars, rsiVars, riskVars, rankVars, allocVars, scanVars,
               previous>>

vars == <<data, initial_capital, position_size_pct, i, capital, position,
          entry_price, trades, equity_curve, results, analysis, pc, otherVars>>

btLocals == <<i, capital, position, entry_price, trades, equity_curve>>

\* the variables of a call that is not the one being modelled
SigIdle == snapshot = <<>> /\ generated = <<>>
BacktestIdle ==
    /\ data = <<>>
    /\ initial_capital = 0
    /\ position_size_pct = 0
    /\ i = 0
    /\ capital = 0
    /\ position = 0
    /\ entry_price = 0
    /\ trades = <<>>
    /\ equity_curve = <<>>
    /\ results = <<>>
    /\ analysis = <<>>
RsiIdle == rsi_period = 0 /\ rsi_series = <<>>
RiskIdle ==
    /\ risk_config = <<>>
    /\ daily_pnl = 0
    /\ starting_portfolio_value = 0
    /\ last_call = <<>>
RankIdle ==
    /\ account = <<>>
    /\ analyses = <<>>
    /\ min_ratio = 0
    /\ opportunities = <<>>
AllocIdle ==
    /\ available_capital = 0
    /\ open_positions = 0
    /\ diversify = FALSE
    /\ slot = 0
    /\ remaining_capital = 0
    /\ allocations = <<>>
ScanIdle ==
    /\ symbols = <<>>
    /\ feed = <<>>
    /\ scan_index = 0
    /\ scan_results = <<>>
ReplayIdle == previous = <<>>
OthersIdle ==
    SigIdle /\ RsiIdle /\ RiskIdle /\ RankIdle /\ AllocIdle /\ ScanIdle
    /\ ReplayIdle

---------------------------------------------------------------------------
(* Bounds of the model and program constants *)

MaxTail == 3            \* free bars appended after the generated head
FlatLen == 60           \* length of the long generated series
WarmUp == 50            \* backtester.py: "if i < 50"
BBPeriod == 20          \* calculate_bollinger_bands default period
BBStdDev == 2           \* calculate_bollinger_bands default std_dev
MacdFast == 12
MacdSlow == 26
MacdSignal == 9
FixedScale == 10 ^ 4    \* fixed-point units per price unit (EMA, MACD)

\* TechnicalAnalyzer.__init__: default configuration
config == [rsi_period |-> 14, rsi_oversold |-> 30, rsi_overbought |-> 70,
           sma_short |-> 20, sma_long |-> 50, ema_short |-> 12, ema_long |-> 26]

Prices == {95, 100, 105, 110, 132}      \* closes of the free bars
FlatCloses == {5, 100, 333}             \* closes of the constant series
\* <<initial_capital, position_size_pct in percent>> of the modelled runs
RunConfigs == {<<10000, 10>>, <<1000, 10>>, <<1000, 100>>}
Shapes == {"flat", "zigzag", "down", "up_zigzag"}
AnalyzeShapes == Shapes \cup {"settle"}

---------------------------------------------------------------------------
(* Input series *)

\* close of the generated head at Python index j
ShapePrice(shape, j) ==
    CASE shape = "flat"      -> 100
      [] shape = "zigzag"    -> 100 + 2 * (j % 2)
      [] shape = "down"      -> 150 - j
      [] shape = "up_zigzag" -> 100 + (j \div 2) + 2 * (j % 2)
      [] shape = "settle"    -> IF j < 10 THEN 110 - j ELSE 100

HeadSeries(shape, h) == [k \in 1..h |-> ShapePrice(shape, k - 1)]

RECURSIVE TailsOfLen(_)
TailsOfLen(n) ==
    IF n = 0 THEN {<<>>}
    ELSE {Append(t, p) : t \in TailsOfLen(n - 1), p \in Prices}

Tails == UNION {TailsOfLen(n) : n \in 0..MaxTail}

HeadLens == {0, 1, WarmUp - 1, WarmUp, FlatLen}

\* two longer series, each with a winning and a losing round trip
WinAndLossInputs ==
    {HeadSeries("zigzag", WarmUp) \o <<105, 95, 105, 110>>,
     HeadSeries("up_zigzag", WarmUp) \o <<95, 132, 132, 95>>}

BacktestInputs ==
    {HeadSeries(s, WarmUp) \o t : s \in Shapes, t \in Tails}
    \cup {HeadSeries(s, h) : s \in Shapes, h \in HeadLens}
    \cup {[k \in 1..n |-> p] : p \in FlatCloses, n \in FlatLen..(FlatLen + 2)}
    \cup WinAndLossInputs

AnalyzeInputs ==
    {HeadSeries(s, h) : s \in AnalyzeShapes, h \in 0..(FlatLen + 1)}

---------------------------------------------------------------------------
(* Numbers *)

NaN == [k |-> "nan", num |-> 0, den |-> 1]
Inf == [k |-> "inf", num |-> 1, den |-> 1]
None == [k |-> "none", num |-> 0, den |-> 1]
Rat(n, d) == [k |-> "num", num |-> n, den |-> d]

\* faulty variant of FDiv: 0/0 is taken to be 1 (an RSI of 50)
FDiv_ZeroOverZeroIsOne(a, b) ==
    IF b = 0 THEN (IF a = 0 THEN Rat(1, 1) ELSE Inf) ELSE Rat(a, b)

\* a / b for a, b >= 0 as numpy divides doubles: 0/0 is nan, x/0 is inf
FDiv(a, b) == IF b = 0 THEN (IF a = 0 THEN NaN ELSE Inf) ELSE Rat(a, b)

RatLt(a, b) == a.num * b.den < b.num * a.den
RatLe(a, b) == a.num * b.den <= b.num * a.den
RatEq(a, b) == a.num * b.den = b.num * a.den

\* "float(x) if not pd.isna(x) else None"
Optional(v) == IF v.k = "nan" THEN None ELSE v

\* Python truthiness of an indicator value: None and 0.0 are false
Truthy(v) == v.k # "none" /\ v.num # 0

\* s[a] + ... + s[b]; the range is halved to keep the evaluation shallow
RECURSIVE SumRange(_, _, _)
SumRange(s, a, b) ==
    IF a > b THEN 0
    ELSE IF a = b THEN s[a]
    ELSE LET mid == (a + b) \div 2
         IN  SumRange(s, a, mid) + SumRange(s, mid + 1, b)

\* s[a]^2 + ... + s[b]^2
RECURSIVE SumSqRange(_, _, _)
SumSqRange(s, a, b) ==
    IF a > b THEN 0
    ELSE IF a = b THEN s[a] * s[a]
    ELSE LET mid == (a + b) \div 2
         IN  SumSqRange(s, a, mid) + SumSqRange(s, mid + 1, b)

---------------------------------------------------------------------------
(* TechnicalAnalyzer: indicators.  Each indicator is a series aligned with *)
(* the prices; Xxx_at(prices, ..., k) is its value at position k.          *)

\* prices.diff(); gains = delta.where(delta > 0, 0): the undefined first
\* delta fails the test "delta > 0" and is replaced by 0
Gains(prices) ==
    [k \in 1..Len(prices) |->
        IF k > 1 /\ prices[k] - prices[k - 1] > 0
        THEN prices[k] - prices[k - 1] ELSE 0]

\* losses = -delta.where(delta < 0, 0)
Losses(prices) ==
    [k \in 1..Len(prices) |->
        IF k > 1 /\ prices[k] - prices[k - 1] < 0
        THEN prices[k - 1] - prices[k] ELSE 0]

\* s.rolling(window, min_periods=window).sum() at k: undefined until
\* `window` observations are in the window
RollingDefined(k, window) == k >= window

\* rsi = 100 - (100 / (1 + rs))
RsiOfRs(rs) ==
    CASE rs.k = "nan" -> NaN
      [] rs.k = "inf" -> Rat(100, 1)
      [] OTHER        -> Rat(100 * rs.num, rs.num + rs.den)

calculate_rsi_at(prices, period, k) ==
    IF ~RollingDefined(k, period) THEN NaN
    ELSE LET sum_gains  == SumRange(Gains(prices), k - period + 1, k)
             sum_losses == SumRange(Losses(prices), k - period + 1, k)
             \* rs = avg_gains / avg_losses, both means over `period`
             rs == FDiv(sum_gains, sum_losses)
         IN  RsiOfRs(rs)

calculate_rsi(prices, period) ==
    [k \in 1..Len(prices) |-> calculate_rsi_at(prices, period, k)]

calculate_sma_at(prices, period, k) ==
    IF ~RollingDefined(k, period) THEN NaN
    ELSE Rat(SumRange(prices, k - period + 1, k), period)

calculate_sma(prices, period) ==
    [k \in 1..Len(prices) |-> calculate_sma_at(prices, period, k)]

\* One step of xs.ewm(span=span, adjust=False).mean() on fixed-point values:
\* alpha = 2 / (span + 1), y[t] = alpha x[t] + (1 - alpha) y[t-1]
EwmStep(x, prev, span) == (2 * x + (span - 1) * prev) \div (span + 1)

ToFixed(price) == price * FixedScale

\* calculate_ema(prices, period) advanced from the state st = [k, ema] (its
\* value ema at position k) to position b.  The range is halved to keep the
\* evaluation shallow.
RECURSIVE EmaFrom(_, _, _, _)
EmaFrom(prices, period, b, st) ==
    IF st.k >= b THEN st
    ELSE IF st.k + 1 = b
    THEN [k |-> b, ema |-> EwmStep(ToFixed(prices[b]), st.ema, period)]
    ELSE LET half == EmaFrom(prices, period, (st.k + b) \div 2, st)
         IN  EmaFrom(prices, period, b, half)

\* in fixed-point units; y[0] = x[0]
calculate_ema_at(prices, period, k) ==
    EmaFrom(prices, period, k, [k |-> 1, ema |-> ToFixed(prices[1])]).ema

\* A Bollinger band at k: sum/period + width * sqrt(ssq / (period (period-1)))
\* with sum the window's sum and ssq = period * (sum of squares) - sum^2,
\* i.e. the rolling mean plus `width` sample standard deviations (ddof = 1)
Band(prices, period, width, k) ==
    IF ~RollingDefined(k, period) THEN NaN
    ELSE LET sum == SumRange(prices, k - period + 1, k)
             ssq == period * SumSqRange(prices, k - period + 1, k) - sum * sum
         IN  [k |-> "num", den |-> period, sum |-> sum, ssq |-> ssq,
              width |-> width]

calculate_bollinger_bands_at(prices, period, std_dev, k) ==
    [upper  |-> Band(prices, period, std_dev, k),
     middle |-> calculate_sma_at(prices, period, k),
     lower  |-> Band(prices, period, 0 - std_dev, k)]

\* whether the band's value is exactly 0
BandIsZero(b) ==
    /\ b.k = "num"
    /\ b.sum * b.width <= 0
    /\ (b.den - 1) * b.sum * b.sum = b.width * b.width * b.den * b.ssq

\* price <= band
PriceLeBand(price, b) ==
    LET gap == b.sum - b.den * price       \* den * (mean - price)
        lhs == b.width * b.width * b.den * b.ssq
        rhs == (b.den - 1) * gap * gap
    IN  IF b.width <= 0 THEN gap >= 0 /\ lhs <= rhs
        ELSE gap >= 0 \/ lhs >= rhs

\* price >= band
PriceGeBand(price, b) ==
    LET gap == b.den * price - b.sum       \* den * (price - mean)
        lhs == b.width * b.width * b.den * b.ssq
        rhs == (b.den - 1) * gap * gap
    IN  IF b.width >= 0 THEN gap >= 0 /\ lhs <= rhs
        ELSE gap >= 0 \/ lhs >= rhs

\* calculate_macd at one position: ema_fast, ema_slow and the signal line
\* (the ewm of macd_line = ema_fast - ema_slow with span `signal`) advance
\* together, each by its own recurrence; st.k is the position reached.
MacdStep(st, price, fast, slow, signal) ==
    LET ema_fast == EwmStep(ToFixed(price), st.ema_fast, fast)
        ema_slow == EwmStep(ToFixed(price), st.ema_slow, slow)
    IN  [k           |-> st.k + 1,
         ema_fast    |-> ema_fast,
         ema_slow    |-> ema_slow,
         signal_line |-> EwmStep(ema_fast - ema_slow, st.signal_line, signal)]

RECURSIVE MacdFrom(_, _, _, _, _, _)
MacdFrom(prices, fast, slow, signal, b, st) ==
    IF st.k >= b THEN st
    ELSE IF st.k + 1 = b THEN MacdStep(st, prices[b], fast, slow, signal)
    ELSE LET half == MacdFrom(prices, fast, slow, signal, (st.k + b) \div 2, st)
         IN  MacdFrom(prices, fast, slow, signal, b, half)

\* (macd_line, signal_line, histogram) at position k, in fixed-point units
calculate_macd_at(prices, fast, slow, signal, k) ==
    LET st == MacdFrom(prices, fast, slow, signal, k,
                       [k           |-> 1,
                        ema_fast    |-> ToFixed(prices[1]),
                        ema_slow    |-> ToFixed(prices[1]),
                        signal_line |-> 0])
        macd_line == st.ema_fast - st.ema_slow
    IN  [macd_line |-> macd_line, signal_line |-> st.signal_line,
         histogram |-> macd_line - st.signal_line]

---------------------------------------------------------------------------
(* TechnicalAnalyzer._generate_signals *)

BandTruthy(b) == b.k = "num" /\ ~BandIsZero(b)

RsiRule(indicators, signals) ==
    IF indicators.rsi # None
    THEN IF RatLt(indicators.rsi, Rat(config.rsi_oversold, 1))
         THEN [signals EXCEPT !.rsi_signal = "buy",
                              !.reasons = Append(@, "RSI oversold"),
                              !.strength = @ + 30]
         ELSE IF RatLt(Rat(config.rsi_overbought, 1), indicators.rsi)
         THEN [signals EXCEPT !.rsi_signal = "sell",
                              !.reasons = Append(@, "RSI overbought"),
                              !.strength = @ - 30]
         ELSE signals
    ELSE signals

MaRule(indicators, signals) ==
    IF Truthy(indicators.sma_short) /\ Truthy(indicators.sma_long)
    THEN IF RatLt(indicators.sma_long, indicators.sma_short)
         THEN [signals EXCEPT !.ma_signal = "bullish",
                              !.reasons = Append(@, "SMA Golden Cross (Short > Long)"),
                              !.strength = @ + 25]
         ELSE IF RatLt(indicators.sma_short, indicators.sma_long)
         THEN [signals EXCEPT !.ma_signal = "bearish",
                              !.reasons = Append(@, "SMA Death Cross (Short < Long)"),
                              !.strength = @ - 25]
         ELSE signals
    ELSE signals

MacdRule(indicators, signals) ==
    IF Truthy(indicators.macd) /\ Truthy(indicators.macd_signal)
    THEN IF /\ RatLt(indicators.macd_signal, indicators.macd)
            /\ indicators.macd_histogram.num > 0
         THEN [signals EXCEPT !.macd_signal = "buy",
                              !.reasons = Append(@, "MACD bullish crossover"),
                              !.strength = @ + 25]
         ELSE IF /\ RatLt(indicators.macd, indicators.macd_signal)
                 /\ indicators.macd_histogram.num < 0
         THEN [signals EXCEPT !.macd_signal = "sell",
                              !.reasons = Append(@, "MACD bearish crossover"),
                              !.strength = @ - 25]
         ELSE signals
    ELSE signals

BollingerRule(indicators, signals) ==
    IF /\ indicators.current_price # 0
       /\ BandTruthy(indicators.bb_upper)
       /\ BandTruthy(indicators.bb_lower)
    THEN IF PriceLeBand(indicators.current_price, indicators.bb_lower)
         THEN [signals EXCEPT !.bb_signal = "buy",
                              !.reasons = Append(@, "Price at lower Bollinger Band"),
                              !.strength = @ + 20]
         ELSE IF PriceGeBand(indicators.current_price, indicators.bb_upper)
         THEN [signals EXCEPT !.bb_signal = "sell",
                              !.reasons = Append(@, "Price at upper Bollinger Band"),
                              !.strength = @ - 20]
         ELSE signals
    ELSE signals

\* faulty variant of OverallSignal: the strong thresholds exclude +-0.4
OverallSignal_StrictStrong(strength) ==
    IF strength > 40 THEN "strong_buy"
    ELSE IF strength >= 20 THEN "buy"
    ELSE IF strength < -40 THEN "strong_sell"
    ELSE IF strength <= -20 THEN "sell"
    ELSE "hold"

OverallSignal(strength) ==
    IF strength >= 40 THEN "strong_buy"
    ELSE IF strength >= 20 THEN "buy"
    ELSE IF strength <= -40 THEN "strong_sell"
    ELSE IF strength <= -20 THEN "sell"
    ELSE "hold"

_generate_signals(indicators) ==
    LET signals == [rsi_signal |-> "neutral", ma_signal |-> "neutral",
                    macd_signal |-> "neutral", bb_signal |-> "neutral",
                    overall_signal |-> "hold", strength |-> 0,
                    reasons |-> <<>>]
        s1 == RsiRule(indicators, signals)
        s2 == MaRule(indicators, s1)
        s3 == MacdRule(indicators, s2)
        s4 == BollingerRule(indicators, s3)
    IN  [s4 EXCEPT !.overall_signal = OverallSignal(s4.strength)]

---------------------------------------------------------------------------
(* TechnicalAnalyzer.analyze_stock on the 'close' column df *)

Latest(prices) ==
    LET n    == Len(prices)
        bb   == calculate_bollinger_bands_at(prices, BBPeriod, BBStdDev, n)
        macd == calculate_macd_at(prices, MacdFast, MacdSlow, MacdSignal, n)
    IN  [current_price  |-> prices[n],
         rsi            |-> Optional(calculate_rsi_at(prices, config.rsi_period, n)),
         sma_short      |-> Optional(calculate_sma_at(prices, config.sma_short, n)),
         sma_long       |-> Optional(calculate_sma_at(prices, config.sma_long, n)),
         ema_short      |-> Rat(calculate_ema_at(prices, config.ema_short, n), FixedScale),
         ema_long       |-> Rat(calculate_ema_at(prices, config.ema_long, n), FixedScale),
         bb_upper       |-> Optional(bb.upper),
         bb_middle      |-> Optional(bb.middle),
         bb_lower       |-> Optional(bb.lower),
         macd           |-> Rat(macd.macd_line, FixedScale),
         macd_signal    |-> Rat(macd.signal_line, FixedScale),
         macd_histogram |-> Rat(macd.histogram, FixedScale)]

analyze_stock(df) ==
    IF Len(df) = 0 THEN [error |-> "No data provided"]
    ELSE LET latest == Latest(df)
         IN  [indicators |-> latest, signals |-> _generate_signals(latest)]

\* the frames analyze_stock is called on: data.iloc[:i+1] for the bars
\* i >= 50 of a backtest, and the inputs of the direct calls
Histories ==
    UNION {{SubSeq(d, 1, n) : n \in (WarmUp + 1)..Len(d)} : d \in BacktestInputs}
    \cup AnalyzeInputs

\* analyze_stock, a pure function, tabulated over those frames
AnalysisOf == [df \in Histories |-> analyze_stock(df)]

---------------------------------------------------------------------------
(* Backtester.run_backtest *)

\* faulty variant of EntryShares: the position-size fraction is forgotten
EntryShares_WholeCapital(cap, pct, price) == cap \div price

\* faulty variant of EntryShares: the share count is rounded up
EntryShares_RoundedUp(cap, pct, price) ==
    (cap * pct + 100 * price - 1) \div (100 * price)

\* shares = int(capital * position_size_pct / current_price)
EntryShares(cap, pct, price) == (cap * pct) \div (100 * price)

\* faulty variant of EntryCondition: buys on a signal even when LONG
EntryCondition_WhileLong(pos, signal, strength) ==
    signal \in {"buy", "strong_buy"} /\ strength >= 30

\* faulty variant of EntryCondition: the strength threshold is forgotten
EntryCondition_AnyStrength(pos, signal, strength) ==
    pos = 0 /\ signal \in {"buy", "strong_buy"}

\* "position == 0 and signal in ['buy', 'strong_buy'] and strength >= 0.3"
EntryCondition(pos, signal, strength) ==
    pos = 0 /\ signal \in {"buy", "strong_buy"} /\ strength >= 30

\* pnl_pct = (current_price - entry_price) / entry_price
PnlPct(price, entry) == Rat(price - entry, entry)

\* pnl_pct * 100
Times100(r) == Rat(100 * r.num, r.den)

\* faulty variant of ExitReason: the stop loss is tested before the sell signal
ExitReason_StopLossFirst(signal, strength, pnl_pct) ==
    IF pnl_pct.num * 100 <= -5 * pnl_pct.den THEN "Stop loss (-5%)"
    ELSE IF signal \in {"sell", "strong_sell"} /\ strength <= -30
    THEN IF signal = "sell" THEN "Sell signal (sell)"
         ELSE "Sell signal (strong_sell)"
    ELSE IF pnl_pct.num * 100 >= 10 * pnl_pct.den THEN "Take profit (+10%)"
    ELSE ""

\* faulty variant of ExitReason: the stop loss excludes exactly -5%
ExitReason_StrictStopLoss(signal, strength, pnl_pct) ==
    IF signal \in {"sell", "strong_sell"} /\ strength <= -30
    THEN IF signal = "sell" THEN "Sell signal (sell)"
         ELSE "Sell signal (strong_sell)"
    ELSE IF pnl_pct.num * 100 < -5 * pnl_pct.den THEN "Stop loss (-5%)"
    ELSE IF pnl_pct.num * 100 >= 10 * pnl_pct.den THEN "Take profit (+10%)"
    ELSE ""

\* faulty variant of ExitReason: the take profit excludes exactly +10%
ExitReason_StrictTakeProfit(signal, strength, pnl_pct) ==
    IF signal \in {"sell", "strong_sell"} /\ strength <= -30
    THEN IF signal = "sell" THEN "Sell signal (sell)"
         ELSE "Sell signal (strong_sell)"
    ELSE IF pnl_pct.num * 100 <= -5 * pnl_pct.den THEN "Stop loss (-5%)"
    ELSE IF pnl_pct.num * 100 > 10 * pnl_pct.den THEN "Take profit (+10%)"
    ELSE ""

\* the if / elif / elif chain choosing exit_reason ('' when no exit)
ExitReason(signal, strength, pnl_pct) ==
    IF signal \in {"sell", "strong_sell"} /\ strength <= -30
    THEN IF signal = "sell" THEN "Sell signal (sell)"
         ELSE "Sell signal (strong_sell)"
    ELSE IF RatLe(pnl_pct, Rat(-5, 100)) THEN "Stop loss (-5%)"
    ELSE IF RatLe(Rat(10, 100), pnl_pct) THEN "Take profit (+10%)"
    ELSE ""

\* faulty variant of PortfolioValue: the open position is not marked to market
PortfolioValue_CashOnly(cap, pos, price) == cap

\* faulty variant of PortfolioValue: one share is marked to market, not all
PortfolioValue_OneShare(cap, pos, price) == cap + (IF pos > 0 THEN price ELSE 0)

\* capital + (position * price if position > 0 else 0)
PortfolioValue(cap, pos, price) == cap + (IF pos > 0 THEN pos * price ELSE 0)

BuyTrade(date, price, shares, signal, strength) ==
    [date |-> date, type |-> "BUY", price |-> price, shares |-> shares,
     signal |-> signal, strength |-> strength]

\* faulty variant of SellTrade: one share fewer is recorded than was sold
SellTrade_OneShareShort(date, price, shares, signal, strength, pnl_pct, reason) ==
    [date |-> date, type |-> "SELL", price |-> price, shares |-> shares - 1,
     signal |-> signal, strength |-> strength,
     pnl_pct |-> Times100(pnl_pct), reason |-> reason]

SellTrade(date, price, shares, signal, strength, pnl_pct, reason) ==
    [date |-> date, type |-> "SELL", price |-> price, shares |-> shares,
     signal |-> signal, strength |-> strength,
     pnl_pct |-> Times100(pnl_pct), reason |-> reason]

\* faulty variant of FinalTrade: the P/L is left as a fraction, not a percentage
FinalTrade_Fraction(date, price, shares, pnl_pct) ==
    [date |-> date, type |-> "SELL", price |-> price, shares |-> shares,
     signal |-> "end_of_test", pnl_pct |-> pnl_pct,
     reason |-> "End of backtest"]

FinalTrade(date, price, shares, pnl_pct) ==
    [date |-> date, type |-> "SELL", price |-> price, shares |-> shares,
     signal |-> "end_of_test", pnl_pct |-> Times100(pnl_pct),
     reason |-> "End of backtest"]

\* lines 50-59: the prints read data.index[0], which raises IndexError on an
\* empty frame; otherwise the locals are initialised
Begin ==
    /\ pc = "start"
    /\ IF Len(data) = 0
       THEN /\ pc' = "raised"
            /\ UNCHANGED btLocals
       ELSE /\ pc' = "loop"
            /\ i' = 0
            /\ capital' = initial_capital
            /\ position' = 0
            /\ entry_price' = 0
            /\ trades' = <<>>
            /\ equity_curve' = <<initial_capital>>
    /\ UNCHANGED <<otherVars, data, initial_capital, position_size_pct, results, analysis>>

\* lines 62-65: one iteration with i < 50
WarmupBar ==
    /\ pc = "loop"
    /\ i < Len(data)
    /\ i < WarmUp
    /\ equity_curve' = Append(equity_curve,
                              PortfolioValue(capital, position, data[i + 1]))
    /\ i' = i + 1
    /\ UNCHANGED <<otherVars, data, initial_capital, position_size_pct, capital, position,
                   entry_price, trades, results, analysis, pc>>

\* faulty variant of TradeBar: the analysis sees the next bar when there is one
TradeBar_LookAhead ==
    /\ pc = "loop"
    /\ i < Len(data)
    /\ i >= WarmUp
    /\ LET historical_data ==
               SubSeq(data, 1, IF i + 2 <= Len(data) THEN i + 2 ELSE i + 1)
           an              == AnalysisOf[historical_data]
           current_price   == data[i + 1]
           signal          == an.signals.overall_signal
           strength        == an.signals.strength
           shares          == EntryShares(capital, position_size_pct, current_price)
           pnl_pct         == PnlPct(current_price, entry_price)
           exit_reason     == ExitReason(signal, strength, pnl_pct)
       IN  IF EntryCondition(position, signal, strength) /\ shares > 0
           THEN /\ position' = shares
                /\ entry_price' = current_price
                /\ capital' = capital - shares * current_price
                /\ trades' = Append(trades,
                       BuyTrade(i, current_price, shares, signal, strength))
                /\ equity_curve' = Append(equity_curve,
                       PortfolioValue(capital', position', current_price))
           ELSE IF ~EntryCondition(position, signal, strength)
                   /\ position > 0 /\ exit_reason # ""
           THEN /\ capital' = capital + position * current_price
                /\ trades' = Append(trades,
                       SellTrade(i, current_price, position, signal, strength,
                                 pnl_pct, exit_reason))
                /\ position' = 0
                /\ entry_price' = 0
                /\ equity_curve' = Append(equity_curve,
                       PortfolioValue(capital', position', current_price))
           ELSE /\ equity_curve' = Append(equity_curve,
                       PortfolioValue(capital, position, current_price))
                /\ UNCHANGED <<capital, position, entry_price, trades>>
    /\ i' = i + 1
    /\ UNCHANGED <<otherVars, data, initial_capital, position_size_pct, results, analysis, pc>>

\* lines 67-140: one iteration with i >= 50
TradeBar ==
    /\ pc = "loop"
    /\ i < Len(data)
    /\ i >= WarmUp
    /\ LET historical_data == SubSeq(data, 1, i + 1)
           an              == AnalysisOf[historical_data]
       IN  IF "error" \in DOMAIN an
           THEN UNCHANGED <<capital, position, entry_price, trades, equity_curve>>
           ELSE
           LET current_price == data[i + 1]
               signal        == an.signals.overall_signal
               strength      == an.signals.strength
               shares        == EntryShares(capital, position_size_pct, current_price)
               pnl_pct       == PnlPct(current_price, entry_price)
               exit_reason   == ExitReason(signal, strength, pnl_pct)
           IN  IF EntryCondition(position, signal, strength)
               THEN IF shares > 0
                    THEN /\ position' = shares
                         /\ entry_price' = current_price
                         /\ capital' = capital - shares * current_price
                         /\ trades' = Append(trades,
                                BuyTrade(i, current_price, shares, signal, strength))
                         /\ equity_curve' = Append(equity_curve,
                                PortfolioValue(capital', position', current_price))
                    ELSE /\ equity_curve' = Append(equity_curve,
                                PortfolioValue(capital, position, current_price))
                         /\ UNCHANGED <<capital, position, entry_price, trades>>
               ELSE IF position > 0 /\ exit_reason # ""
               THEN /\ capital' = capital + position * current_price
                    /\ trades' = Append(trades,
                           SellTrade(i, current_price, position, signal, strength,
                                     pnl_pct, exit_reason))
                    /\ position' = 0
                    /\ entry_price' = 0
                    /\ equity_curve' = Append(equity_curve,
                           PortfolioValue(capital', position', current_price))
               ELSE /\ equity_curve' = Append(equity_curve,
                           PortfolioValue(capital, position, current_price))
                    /\ UNCHANGED <<capital, position, entry_price, trades>>
    /\ i' = i + 1
    /\ UNCHANGED <<otherVars, data, initial_capital, position_size_pct, results, analysis, pc>>

\* lines 142-156: after the loop, close any open position at the last close
CloseOpenPosition ==
    /\ pc = "loop"
    /\ i = Len(data)
    /\ IF position > 0
       THEN LET final_price == data[Len(data)]
                pnl_pct     == PnlPct(final_price, entry_price)
            IN  /\ capital' = capital + position * final_price
                /\ trades' = Append(trades,
                       FinalTrade(Len(data) - 1, final_price, position, pnl_pct))
       ELSE UNCHANGED <<capital, trades>>
    /\ pc' = "metrics"
    /\ UNCHANGED <<otherVars, data, initial_capital, position_size_pct, i, position,
                   entry_price, equity_curve, results, analysis>>

HasPnl(t) == "pnl_pct" \in DOMAIN t

\* faulty variant of IsWinning: a P/L of 0, or none at all, counts as a win
IsWinning_NonNegative(t) == ~HasPnl(t) \/ t.pnl_pct.num >= 0

\* t.get('pnl_pct', 0) > 0  /  < 0
IsWinning(t) == HasPnl(t) /\ t.pnl_pct.num > 0
IsLosing(t) == HasPnl(t) /\ t.pnl_pct.num < 0

CountTrades(ts, P(_)) == Cardinality({k \in 1..Len(ts) : P(ts[k])})

\* the largest of eq[a..b] (a <= b)
RECURSIVE MaxRange(_, _, _)
MaxRange(eq, a, b) ==
    IF a = b THEN eq[a]
    ELSE LET mid == (a + b) \div 2
             l   == MaxRange(eq, a, mid)
             r   == MaxRange(eq, mid + 1, b)
         IN  IF r > l THEN r ELSE l

\* faulty variant of CumMax: the peak of the whole curve, not the running one
CumMax_WholeCurve(eq, k) == MaxRange(eq, 1, Len(eq))

\* equity_series.cummax() at k
CumMax(eq, k) == MaxRange(eq, 1, k)

\* (equity_series - cummax) / cummax * 100 at k
Drawdown(eq, k) ==
    LET cummax == CumMax(eq, k) IN Rat((eq[k] - cummax) * 100, cummax)

\* the least of the drawdowns at a..b (a <= b), the earlier one on a tie
RECURSIVE MinDrawdownRange(_, _, _)
MinDrawdownRange(eq, a, b) ==
    IF a = b THEN Drawdown(eq, a)
    ELSE LET mid == (a + b) \div 2
             l   == MinDrawdownRange(eq, a, mid)
             r   == MinDrawdownRange(eq, mid + 1, b)
         IN  IF RatLt(r, l) THEN r ELSE l

\* drawdown.min()
MinDrawdown(eq) == MinDrawdownRange(eq, 1, Len(eq))

\* lines 158-193: the metrics and the returned dict
CalculateMetrics ==
    /\ pc = "metrics"
    /\ LET final_capital == capital
           winning       == CountTrades(trades, IsWinning)
           losing        == CountTrades(trades, IsLosing)
       IN  results' =
             [initial_capital     |-> initial_capital,
              final_capital       |-> final_capital,
              total_return_pct    |-> Rat((final_capital - initial_capital) * 100,
                                          initial_capital),
              buy_hold_return_pct |-> Rat((data[Len(data)] - data[1]) * 100, data[1]),
              total_trades        |-> Len(trades),
              winning_trades      |-> winning,
              losing_trades       |-> losing,
              win_rate_pct        |-> IF winning + losing > 0
                                      THEN Rat(winning * 100, winning + losing)
                                      ELSE Rat(0, 1),
              max_drawdown_pct    |-> MinDrawdown(equity_curve),
              trades              |-> trades,
              equity_curve        |-> equity_curve]
    /\ pc' = "done"
    /\ UNCHANGED <<otherVars, data, initial_capital, position_size_pct, i, capital, position,
                   entry_price, trades, equity_curve, analysis>>

Init ==
    /\ data \in BacktestInputs
    /\ \E c \in RunConfigs : initial_capital = c[1] /\ position_size_pct = c[2]
    /\ i = 0
    /\ capital = 0
    /\ position = 0
    /\ entry_price = 0
    /\ trades = <<>>
    /\ equity_curve = <<>>
    /\ results = <<>>
    /\ analysis = <<>>
    /\ pc = "start"
    /\ OthersIdle

Next ==
    \/ Begin
    \/ WarmupBar
    \/ TradeBar
    \/ CloseOpenPosition
    \/ CalculateMetrics

Spec == Init /\ [][Next]_vars

---------------------------------------------------------------------------
(* Two calls of run_backtest in a row *)

\* the number of leading bars on which two series agree
CommonBars(a, b) ==
    LET shorter == IF Len(a) <= Len(b) THEN Len(a) ELSE Len(b)
        differ  == {k \in 1..shorter : a[k] # b[k]}
    IN  IF differ = {} THEN shorter
        ELSE (CHOOSE k \in differ : \A m \in differ : k <= m) - 1

ReplayShapes == {"zigzag", "up_zigzag"}

ReplayInputs ==
    {HeadSeries(s, WarmUp) \o t :
        s \in ReplayShapes, t \in UNION {TailsOfLen(n) : n \in 0..(MaxTail - 1)}}

\* the series of the first call with its last bar changed, dropped, or with
\* one more bar
SecondInputs(first) ==
    {d \in BacktestInputs :
        /\ d # first
        /\ Len(d) >= WarmUp
        /\ CommonBars(d, first) >= Len(first) - 1
        /\ Len(d) <= Len(first) \/ CommonBars(d, first) = Len(first)
        /\ Len(d) <= Len(first) + 1}

\* a second call of run_backtest on the same Backtester
RunAgain ==
    /\ pc = "done"
    /\ previous = <<>>
    /\ previous' = [data |-> data, trades |-> results.trades,
                    equity_curve |-> results.equity_curve]
    /\ data' \in SecondInputs(data)
    /\ results' = <<>>
    /\ pc' = "start"
    /\ UNCHANGED <<initial_capital, position_size_pct, btLocals, analysis,
                   sigVars, rsiVars, riskVars, rankVars, allocVars, scanVars>>

InitReplay ==
    /\ data \in ReplayInputs
    /\ initial_capital = 1000
    /\ position_size_pct = 100
    /\ i = 0
    /\ capital = 0
    /\ position = 0
    /\ entry_price = 0
    /\ trades = <<>>
    /\ equity_curve = <<>>
    /\ results = <<>>
    /\ analysis = <<>>
    /\ pc = "start"
    /\ OthersIdle

NextReplay ==
    \/ Begin
    \/ WarmupBar
    \/ TradeBar
    \/ CloseOpenPosition
    \/ CalculateMetrics
    \/ RunAgain

SpecReplay == InitReplay /\ [][NextReplay]_vars

---------------------------------------------------------------------------
(* A call of analyze_stock on its own *)

AnalyzeStock ==
    /\ pc = "analyze"
    /\ analysis' = AnalysisOf[data]
    /\ pc' = "analyzed"
    /\ UNCHANGED <<otherVars, data, initial_capital, position_size_pct, i, capital, position,
                   entry_price, trades, equity_curve, results>>

InitAnalyze ==
    /\ data \in AnalyzeInputs
    /\ initial_capital = 0
    /\ position_size_pct = 0
    /\ i = 0
    /\ capital = 0
    /\ position = 0
    /\ entry_price = 0
    /\ trades = <<>>
    /\ equity_curve = <<>>
    /\ results = <<>>
    /\ analysis = <<>>
    /\ pc = "analyze"
    /\ OthersIdle

NextAnalyze == AnalyzeStock

SpecAnalyze == InitAnalyze /\ [][NextAnalyze]_vars

---------------------------------------------------------------------------
(* Properties of run_backtest *)

\* the step is one iteration of the loop at a bar i >= 50
AtTradeBar == pc = "loop" /\ i < Len(data) /\ i >= WarmUp

\* close, signal and strength of the bar the loop is at
BarClose == data[i + 1]
BarSignal == AnalysisOf[SubSeq(data, 1, i + 1)].signals.overall_signal
BarStrength == AnalysisOf[SubSeq(data, 1, i + 1)].signals.strength

BuySignalled == BarSignal \in {"buy", "strong_buy"} /\ BarStrength >= 30
SellSignalled == BarSignal \in {"sell", "strong_sell"} /\ BarStrength <= -30
\* (close - entry) / entry <= -0.05 and >= 0.10, for entry > 0
StopLossHit == 100 * (BarClose - entry_price) <= -5 * entry_price
TakeProfitHit == 100 * (BarClose - entry_price) >= 10 * entry_price

LastTrade(ts) == ts[Len(ts)]
TradeAdded == Len(trades') = Len(trades) + 1 /\ SubSeq(trades', 1, Len(trades)) = trades
NoTradeAdded == trades' = trades

IsSellSignalReason(r) == r \in {"Sell signal (sell)", "Sell signal (strong_sell)"}

\* the trade types are BUY, SELL, BUY, SELL, ... from the first on
Alternates(ts) ==
    \A k \in 1..Len(ts) : ts[k].type = (IF k % 2 = 1 THEN "BUY" ELSE "SELL")

\* C1: throughout run_backtest the share count is never negative, a BUY is
\* recorded only while no share is held and a SELL only while shares are
\* held, and the trade list alternates BUY, SELL, ... starting with a BUY.
C1_OnePositionNoShort ==
    /\ [](position >= 0 /\ Alternates(trades))
    /\ [][trades' # trades =>
            /\ TradeAdded
            /\ LastTrade(trades').type = "BUY" => position = 0
            /\ LastTrade(trades').type = "SELL" =>
                    position > 0 /\ LastTrade(trades').shares = position]_vars

\* C1 witness: a run that bought, sold and bought again
C1_Witness ==
    pc = "loop" /\ Len(trades) >= 3 /\ position > 0

\* C2: at a bar i >= 50 in state FLAT with a buy or strong_buy signal of
\* strength >= 0.3, shares = floor(capital * position_size_pct / close); with
\* shares >= 1 the capital drops by shares * close, the position opens at
\* entry price close and one BUY is recorded; with shares = 0 nothing
\* changes.  A BUY is recorded in no other situation.
C2_Entry ==
    [][/\ (AtTradeBar /\ position = 0 /\ BuySignalled) =>
            \/ /\ position' >= 1
               /\ position' * 100 * BarClose <= capital * position_size_pct
               /\ capital * position_size_pct < (position' + 1) * 100 * BarClose
               /\ capital' = capital - position' * BarClose
               /\ entry_price' = BarClose
               /\ TradeAdded
               /\ LastTrade(trades').type = "BUY"
               /\ LastTrade(trades').price = BarClose
               /\ LastTrade(trades').shares = position'
               /\ LastTrade(trades').date = i
            \/ /\ capital * position_size_pct < 100 * BarClose
               /\ UNCHANGED <<capital, position, entry_price, trades>>
       /\ (trades' # trades /\ LastTrade(trades').type = "BUY") =>
            AtTradeBar /\ position = 0 /\ BuySignalled]_vars

\* C2 witness: a BUY was recorded on one run, and on another the sizing gave
\* no share (FLAT with the entry signal, position still 0 after the bar)
C2_WitnessBuy ==
    pc = "loop" /\ Len(trades) = 1 /\ position >= 2 /\ i > WarmUp

C2_WitnessNoShare ==
    /\ AtTradeBar /\ position = 0 /\ BuySignalled
    /\ capital * position_size_pct < 100 * BarClose

\* C3: when LONG at a bar i >= 50, the exit reason is that of the first
\* matching condition in the order sell signal, stop loss, take profit; on
\* an exit the proceeds shares * close are added to the capital, exactly one
\* SELL with P/L % = (close - entry) / entry * 100 is recorded, and the
\* position and the entry price are cleared.
C3_ExitPriority ==
    [][(AtTradeBar /\ position > 0
            /\ (SellSignalled \/ StopLossHit \/ TakeProfitHit)) =>
        /\ TradeAdded
        /\ LastTrade(trades').type = "SELL"
        /\ LastTrade(trades').price = BarClose
        /\ LastTrade(trades').shares = position
        /\ RatEq(LastTrade(trades').pnl_pct,
                 Rat(100 * (BarClose - entry_price), entry_price))
        /\ LastTrade(trades').reason =
             (IF SellSignalled
              THEN (IF BarSignal = "sell" THEN "Sell signal (sell)"
                    ELSE "Sell signal (strong_sell)")
              ELSE IF StopLossHit THEN "Stop loss (-5%)"
              ELSE "Take profit (+10%)")
        /\ capital' = capital + position * BarClose
        /\ position' = 0
        /\ entry_price' = 0]_vars

\* C3 witness: exits by a sell signal while the stop loss, and on another
\* run the take profit, also held
C3_WitnessSignalAndStop ==
    /\ Len(trades) >= 2
    /\ LastTrade(trades).type = "SELL"
    /\ IsSellSignalReason(LastTrade(trades).reason)
    /\ RatLe(LastTrade(trades).pnl_pct, Rat(-5, 1))

C3_WitnessSignalAndProfit ==
    /\ Len(trades) >= 2
    /\ LastTrade(trades).type = "SELL"
    /\ IsSellSignalReason(LastTrade(trades).reason)
    /\ RatLe(Rat(10, 1), LastTrade(trades).pnl_pct)

\* C4: at a bar i >= 50 where a position is held and the sell-signal exit
\* does not apply, (close - entry) / entry <= -0.05 (the boundary included)
\* closes the position at that bar with the stop-loss reason and the
\* recorded P/L % (close - entry) / entry * 100; the position is not open
\* after such a bar.
C4_StopLoss ==
    [][(AtTradeBar /\ position > 0 /\ ~SellSignalled /\ StopLossHit) =>
        /\ position' = 0
        /\ TradeAdded
        /\ LastTrade(trades').type = "SELL"
        /\ LastTrade(trades').date = i
        /\ LastTrade(trades').reason = "Stop loss (-5%)"
        /\ RatEq(LastTrade(trades').pnl_pct,
                 Rat(100 * (BarClose - entry_price), entry_price))]_vars

\* C4 witness: a stop-loss exit at exactly -5 %
C4_WitnessBoundary ==
    /\ Len(trades) >= 2
    /\ LastTrade(trades).reason = "Stop loss (-5%)"
    /\ RatEq(LastTrade(trades).pnl_pct, Rat(-5, 1))
    /\ position = 0

\* C5: at a bar i >= 50 where a position is held and neither the sell
\* signal nor the stop loss applies, (close - entry) / entry >= 0.10 (the
\* boundary included) closes the position at that bar with the take-profit
\* reason and the recorded P/L % (close - entry) / entry * 100.
C5_TakeProfit ==
    [][(AtTradeBar /\ position > 0 /\ ~SellSignalled /\ ~StopLossHit
            /\ TakeProfitHit) =>
        /\ position' = 0
        /\ TradeAdded
        /\ LastTrade(trades').type = "SELL"
        /\ LastTrade(trades').date = i
        /\ LastTrade(trades').reason = "Take profit (+10%)"
        /\ RatEq(LastTrade(trades').pnl_pct,
                 Rat(100 * (BarClose - entry_price), entry_price))]_vars

\* C5 witness: a take-profit exit at exactly +10 %
C5_WitnessBoundary ==
    /\ Len(trades) >= 2
    /\ LastTrade(trades).reason = "Take profit (+10%)"
    /\ RatEq(LastTrade(trades).pnl_pct, Rat(10, 1))
    /\ position = 0

Count(ts, type) == Cardinality({k \in 1..Len(ts) : ts[k].type = type})

\* C6: after the final bar a position still held is liquidated at the last
\* close: the proceeds are added to the capital and a SELL with reason
\* 'End of backtest' and P/L % = (lastClose - entry) / entry * 100 is
\* appended as the last trade; every returned result has as many SELL as BUY
\* trades, each SELL selling the shares of the BUY before it, and its
\* final_capital is the cash after the liquidation.
C6_FinalLiquidation ==
    /\ [][(pc = "loop" /\ i = Len(data) /\ position > 0) =>
            /\ capital' = capital + position * data[Len(data)]
            /\ TradeAdded
            /\ LastTrade(trades').type = "SELL"
            /\ LastTrade(trades').reason = "End of backtest"
            /\ LastTrade(trades').price = data[Len(data)]
            /\ LastTrade(trades').shares = position
            /\ LastTrade(trades').date = Len(data) - 1
            /\ RatEq(LastTrade(trades').pnl_pct,
                     Rat(100 * (data[Len(data)] - entry_price), entry_price))]_vars
    /\ [](pc = "done" =>
            /\ Count(results.trades, "SELL") = Count(results.trades, "BUY")
            /\ \A k \in 1..Len(results.trades) :
                 results.trades[k].type = "SELL" =>
                    /\ k > 1
                    /\ results.trades[k - 1].type = "BUY"
                    /\ results.trades[k].shares = results.trades[k - 1].shares
            /\ results.final_capital = capital
            /\ position > 0 =>
                 LastTrade(results.trades).reason = "End of backtest")

\* C6 witness: a returned result whose run ended LONG
C6_Witness ==
    /\ pc = "done"
    /\ position > 0
    /\ LastTrade(results.trades).reason = "End of backtest"
    /\ Len(results.trades) >= 4

\* C7 as claimed: the returned equity curve has exactly one point per bar,
\* so its length is the number of bars.
C7_OnePointPerBar ==
    pc = "done" => Len(results.equity_curve) = Len(data)

\* C7 as amended: the returned equity curve is the initial capital followed by
\* one point per bar, warm-up bars included: its length is the number of
\* bars plus one, and the point appended for bar k is the mark-to-market
\* value (capital + shares * close_k if LONG, else capital) after bar k was
\* processed.
C7_SeedPlusOnePointPerBar ==
    /\ [](pc \in {"loop", "metrics"} =>
            Len(equity_curve) = i + 1 /\ equity_curve[1] = initial_capital)
    /\ [](pc = "done" =>
            /\ results.equity_curve = equity_curve
            /\ Len(results.equity_curve) = Len(data) + 1
            /\ results.equity_curve[1] = initial_capital)
    /\ [][(pc = "loop" /\ i < Len(data)) =>
            equity_curve' =
                Append(equity_curve,
                       IF position' > 0 THEN capital' + position' * data[i + 1]
                       ELSE capital')]_vars

\* C7 witness: a returned curve with a point taken while LONG
C7_Witness ==
    /\ pc = "done"
    /\ Len(results.equity_curve) = Len(data) + 1
    /\ Len(results.trades) >= 2
    /\ \E k \in 2..Len(results.equity_curve) :
            results.equity_curve[k] # results.equity_curve[k - 1]

\* C8: no trade carries the timestamp of a bar i < 50, the warm-up bars leave
\* capital and position unchanged and append the initial capital to the
\* equity curve, and a series of fewer than 51 bars yields zero trades and
\* final_capital = initial_capital.
C8_WarmupNoDecision ==
    /\ \A k \in 1..Len(trades) : trades[k].date >= WarmUp
    /\ (pc = "loop" /\ i <= WarmUp) =>
            /\ capital = initial_capital
            /\ position = 0
            /\ \A k \in 1..Len(equity_curve) : equity_curve[k] = initial_capital
    /\ (pc \in {"done", "raised"} /\ Len(data) < WarmUp + 1) =>
            /\ pc = "done"
            /\ results.total_trades = 0
            /\ results.final_capital = initial_capital

\* The part of C8 that holds: as C8, for the runs that return.
WarmupNoDecisionWhenReturned ==
    /\ \A k \in 1..Len(trades) : trades[k].date >= WarmUp
    /\ (pc = "loop" /\ i <= WarmUp) =>
            /\ capital = initial_capital
            /\ position = 0
            /\ \A k \in 1..Len(equity_curve) : equity_curve[k] = initial_capital
    /\ (pc = "done" /\ Len(data) < WarmUp + 1) =>
            /\ results.total_trades = 0
            /\ results.final_capital = initial_capital

---------------------------------------------------------------------------
(* Properties of analyze_stock *)

IsFlat(prices) == \A k \in 1..Len(prices) : prices[k] = prices[1]

\* every price delta in the RSI window at the last position is zero
RsiWindowFlat(prices) ==
    \A k \in (Len(prices) - config.rsi_period + 1)..Len(prices) :
        k > 1 => prices[k] = prices[k - 1]

\* the strength contributed by the moving-average, MACD and Bollinger rules
StrengthWithoutRsi(signals) ==
    (IF signals.ma_signal = "bullish" THEN 25
     ELSE IF signals.ma_signal = "bearish" THEN -25 ELSE 0)
    + (IF signals.macd_signal = "buy" THEN 25
       ELSE IF signals.macd_signal = "sell" THEN -25 ELSE 0)
    + (IF signals.bb_signal = "buy" THEN 20
       ELSE IF signals.bb_signal = "sell" THEN -20 ELSE 0)

\* C9: when average gain and average loss of the RSI window are both zero,
\* calculate_rsi yields no value, analyze_stock reports rsi as None, and
\* _generate_signals leaves rsi_signal neutral, with no RSI contribution to
\* the strength and no RSI reason.
C9_RsiZeroOverZero ==
    (pc = "analyzed" /\ Len(data) >= config.rsi_period /\ RsiWindowFlat(data)) =>
        /\ calculate_rsi_at(data, config.rsi_period, Len(data)) = NaN
        /\ analysis.indicators.rsi = None
        /\ analysis.signals.rsi_signal = "neutral"
        /\ analysis.signals.strength = StrengthWithoutRsi(analysis.signals)
        /\ \A k \in 1..Len(analysis.signals.reasons) :
               analysis.signals.reasons[k] \notin {"RSI oversold", "RSI overbought"}

\* C9 witness: a series that moved and then stayed put through the window
C9_Witness ==
    /\ pc = "analyzed"
    /\ Len(data) >= config.rsi_period
    /\ RsiWindowFlat(data)
    /\ ~IsFlat(data)
    /\ analysis.indicators.rsi = None
    /\ analysis.signals.strength # 0

\* C10: for a flat series of at least 60 bars at a positive close,
\* analyze_stock fires no rule: the four sub-signals are neutral, strength is
\* 0, there is no reason and the overall signal is 'hold'.
C10_FlatSeriesNoRule ==
    (pc = "analyzed" /\ Len(data) >= 60 /\ IsFlat(data) /\ data[1] > 0) =>
        /\ analysis.signals.rsi_signal = "neutral"
        /\ analysis.signals.ma_signal = "neutral"
        /\ analysis.signals.macd_signal = "neutral"
        /\ analysis.signals.bb_signal = "neutral"
        /\ analysis.signals.strength = 0
        /\ analysis.signals.reasons = <<>>
        /\ analysis.signals.overall_signal = "hold"

\* What analyze_stock returns on such a series: the Bollinger bands collapse
\* onto the close, "price <= lower band" holds and that rule alone fires.
FlatSeriesBollingerBuy ==
    (pc = "analyzed" /\ Len(data) >= 60 /\ IsFlat(data) /\ data[1] > 0) =>
        /\ analysis.indicators.rsi = None
        /\ analysis.signals.rsi_signal = "neutral"
        /\ analysis.signals.ma_signal = "neutral"
        /\ analysis.signals.macd_signal = "neutral"
        /\ analysis.signals.bb_signal = "buy"
        /\ analysis.signals.strength = 20
        /\ analysis.signals.reasons = <<"Price at lower Bollinger Band">>
        /\ analysis.signals.overall_signal = "buy"

---------------------------------------------------------------------------
(* Properties of the metrics of run_backtest *)

\* C11: for a flat series of at least 60 bars at a positive close,
\* run_backtest records no trade, final_capital equals initial_capital,
\* total_return_pct is 0 and every equity-curve point is the initial capital.
C11_FlatSeriesNoTrade ==
    (Len(data) >= 60 /\ IsFlat(data) /\ data[1] > 0) =>
        /\ trades = <<>>
        /\ position = 0
        /\ pc = "done" =>
            /\ results.total_trades = 0
            /\ results.trades = <<>>
            /\ results.final_capital = initial_capital
            /\ results.total_return_pct.num = 0
            /\ \A k \in 1..Len(results.equity_curve) :
                   results.equity_curve[k] = initial_capital

\* C11 witness: a returned result of a flat series away from the close 100
C11_Witness ==
    /\ pc = "done"
    /\ Len(data) > 60
    /\ IsFlat(data)
    /\ data[1] = 333
    /\ results.total_trades = 0

\* the running maximum of eq at k, stated without computing it
IsRunningMax(eq, k, m) ==
    /\ \E j \in 1..k : eq[j] = m
    /\ \A j \in 1..k : eq[j] <= m

\* (eq[k] - m) / m * 100
DrawdownFrom(eq, k, m) == Rat((eq[k] - m) * 100, m)

NonDecreasing(eq) == \A k \in 1..(Len(eq) - 1) : eq[k] <= eq[k + 1]

\* C12: max_drawdown_pct is the least, over the points of the equity curve,
\* of (equity - runningMax) / runningMax * 100; it is <= 0, and it is 0
\* exactly when the equity curve is non-decreasing.
C12_MaxDrawdown ==
    pc = "done" =>
        LET eq  == results.equity_curve
            mdd == results.max_drawdown_pct
        IN  /\ mdd.k = "num" /\ mdd.den > 0
            /\ mdd.num <= 0
            /\ \A k \in 1..Len(eq) : \A m \in {eq[j] : j \in 1..k} :
                   IsRunningMax(eq, k, m) => RatLe(mdd, DrawdownFrom(eq, k, m))
            /\ \E k \in 1..Len(eq) : \E m \in {eq[j] : j \in 1..k} :
                   IsRunningMax(eq, k, m) /\ RatEq(mdd, DrawdownFrom(eq, k, m))
            /\ mdd.num = 0 <=> NonDecreasing(eq)

\* C12 witness: a curve that rose and never fell, so the drawdown is 0
C12_WitnessRising ==
    /\ pc = "done"
    /\ results.max_drawdown_pct.num = 0
    /\ results.final_capital > initial_capital

\* C12 witness: a curve that fell below an earlier peak above the start
C12_WitnessFalling ==
    /\ pc = "done"
    /\ results.max_drawdown_pct.num < 0
    /\ \E k \in 1..Len(results.equity_curve) :
           results.equity_curve[k] > initial_capital

\* C13: a trade is winning iff its recorded P/L % is > 0 and losing iff it is
\* < 0; BUY records and exits at exactly 0 are neither; win_rate_pct is
\* winning / (winning + losing) * 100, or 0 when there is none of either;
\* winning + losing <= number of SELL trades = total_trades / 2.
C13_WinRate ==
    pc = "done" =>
        LET ts   == results.trades
            wins == {k \in 1..Len(ts) : ts[k].type = "SELL" /\ ts[k].pnl_pct.num > 0}
            loss == {k \in 1..Len(ts) : ts[k].type = "SELL" /\ ts[k].pnl_pct.num < 0}
            w    == Cardinality(wins)
            l    == Cardinality(loss)
        IN  /\ \A k \in 1..Len(ts) : ts[k].type = "SELL" => ts[k].pnl_pct.den > 0
            /\ results.winning_trades = w
            /\ results.losing_trades = l
            /\ IF w + l = 0 THEN results.win_rate_pct.num = 0
               ELSE RatEq(results.win_rate_pct, Rat(w * 100, w + l))
            /\ results.total_trades = Len(ts)
            /\ 2 * Count(ts, "SELL") = results.total_trades
            /\ w + l <= Count(ts, "SELL")

\* C13 witness: a result with a closed round trip and a break-even liquidation
\* of an entry made on the last bar
C13_Witness ==
    /\ pc = "done"
    /\ Len(results.trades) >= 4
    /\ results.winning_trades + results.losing_trades >= 1
    /\ LastTrade(results.trades).reason = "End of backtest"
    /\ LastTrade(results.trades).pnl_pct.num = 0

\* C13 witness: a result with one win and one loss, a win rate of 50
C13_WitnessWinAndLoss ==
    /\ pc = "done"
    /\ results.winning_trades = 1
    /\ results.losing_trades = 1
    /\ RatEq(results.win_rate_pct, Rat(50, 1))

---------------------------------------------------------------------------
(* A call of _generate_signals on an indicator snapshot of its own *)

\* a band whose value is the whole number x
ConstBand(x, width) ==
    [k |-> "num", den |-> 2, sum |-> 2 * x, ssq |-> 0, width |-> width]

RsiValues == {None, Rat(20, 1), Rat(30, 1), Rat(50, 1), Rat(70, 1), Rat(80, 1)}
SmaValues == {None, Rat(0, 1), Rat(99, 1), Rat(100, 1)}
MacdValues == {None, Rat(-1, 1), Rat(0, 1), Rat(1, 1)}
\* <<bb_lower, bb_upper>> around a current price of 100
BandPairs ==
    {<<None, None>>}
    \cup {<<ConstBand(b[1], -2), ConstBand(b[2], 2)>> :
            b \in {<<90, 110>>, <<100, 120>>, <<80, 100>>, <<100, 100>>, <<0, 50>>}}

\* macd_line - signal_line, NaN-propagating
Histogram(macd, macd_signal) ==
    IF macd = None \/ macd_signal = None THEN None
    ELSE Rat(macd.num * macd_signal.den - macd_signal.num * macd.den,
             macd.den * macd_signal.den)

Snapshots ==
    {[current_price  |-> 100,
      rsi            |-> r,
      sma_short      |-> ss,
      sma_long       |-> sl,
      ema_short      |-> None,
      ema_long       |-> None,
      bb_upper       |-> bp[2],
      bb_middle      |-> None,
      bb_lower       |-> bp[1],
      macd           |-> m,
      macd_signal    |-> ms,
      macd_histogram |-> Histogram(m, ms)] :
        r \in RsiValues, ss \in SmaValues, sl \in SmaValues,
        m \in MacdValues, ms \in MacdValues, bp \in BandPairs}

GenerateSignals ==
    /\ pc = "signals"
    /\ generated' = _generate_signals(snapshot)
    /\ pc' = "generated"
    /\ UNCHANGED <<data, initial_capital, position_size_pct, btLocals, results,
                   analysis, snapshot, rsiVars, riskVars, rankVars, allocVars,
                   scanVars, previous>>

InitSignals ==
    /\ snapshot \in Snapshots
    /\ generated = <<>>
    /\ BacktestIdle
    /\ RsiIdle /\ RiskIdle /\ RankIdle /\ AllocIdle /\ ScanIdle /\ ReplayIdle
    /\ pc = "signals"

NextSignals == GenerateSignals

SpecSignals == InitSignals /\ [][NextSignals]_vars

\* the rule each family's table rows select on a snapshot: the first row whose
\* required values are all defined and whose condition holds, "" if none
RsiRow(ind) ==
    IF ind.rsi = None THEN ""
    ELSE IF ind.rsi.num < 30 * ind.rsi.den THEN "RSI oversold"
    ELSE IF ind.rsi.num > 70 * ind.rsi.den THEN "RSI overbought"
    ELSE ""

MaRow(ind) ==
    IF ind.sma_short = None \/ ind.sma_long = None THEN ""
    ELSE IF RatLt(ind.sma_long, ind.sma_short) THEN "SMA Golden Cross (Short > Long)"
    ELSE IF RatLt(ind.sma_short, ind.sma_long) THEN "SMA Death Cross (Short < Long)"
    ELSE ""

MacdRow(ind) ==
    IF ind.macd = None \/ ind.macd_signal = None \/ ind.macd_histogram = None
    THEN ""
    ELSE IF RatLt(ind.macd_signal, ind.macd) /\ ind.macd_histogram.num > 0
    THEN "MACD bullish crossover"
    ELSE IF RatLt(ind.macd, ind.macd_signal) /\ ind.macd_histogram.num < 0
    THEN "MACD bearish crossover"
    ELSE ""

BollingerRow(ind) ==
    IF ind.bb_lower = None \/ ind.bb_upper = None THEN ""
    ELSE IF PriceLeBand(ind.current_price, ind.bb_lower)
    THEN "Price at lower Bollinger Band"
    ELSE IF PriceGeBand(ind.current_price, ind.bb_upper)
    THEN "Price at upper Bollinger Band"
    ELSE ""

\* weight and sub-signal of a table row
RowWeight(row) ==
    CASE row = "RSI oversold" -> 30
      [] row = "RSI overbought" -> -30
      [] row = "SMA Golden Cross (Short > Long)" -> 25
      [] row = "SMA Death Cross (Short < Long)" -> -25
      [] row = "MACD bullish crossover" -> 25
      [] row = "MACD bearish crossover" -> -25
      [] row = "Price at lower Bollinger Band" -> 20
      [] row = "Price at upper Bollinger Band" -> -20
      [] OTHER -> 0

RowSignal(row) ==
    CASE row \in {"RSI oversold", "MACD bullish crossover",
                  "Price at lower Bollinger Band"} -> "buy"
      [] row \in {"RSI overbought", "MACD bearish crossover",
                  "Price at upper Bollinger Band"} -> "sell"
      [] row = "SMA Golden Cross (Short > Long)" -> "bullish"
      [] row = "SMA Death Cross (Short < Long)" -> "bearish"
      [] OTHER -> "neutral"

Rows(ind) == <<RsiRow(ind), MaRow(ind), MacdRow(ind), BollingerRow(ind)>>

\* the rows of `rows` that are not "", in order
FiredRows(rows) == SelectSeq(rows, LAMBDA r : r # "")

RulesFireAsTabled(ind, sg) ==
    LET rows == Rows(ind)
    IN  /\ sg.rsi_signal = RowSignal(rows[1])
        /\ sg.ma_signal = RowSignal(rows[2])
        /\ sg.macd_signal = RowSignal(rows[3])
        /\ sg.bb_signal = RowSignal(rows[4])
        /\ sg.reasons = FiredRows(rows)
        /\ sg.strength = RowWeight(rows[1]) + RowWeight(rows[2])
                         + RowWeight(rows[3]) + RowWeight(rows[4])

\* C14: _generate_signals skips a rule iff a value the rule requires is
\* undefined; every rule whose required values are all defined (a defined 0
\* included) and whose condition holds sets its sub-signal, appends its
\* reason and adds its weight, so the strength is the sum of the weights of
\* exactly the rules whose conditions hold.
C14_RulesFireWhenDefined ==
    pc = "generated" => RulesFireAsTabled(snapshot, generated)

\* no value of the snapshot that a rule reads is a defined 0
NoDefinedZero(ind) ==
    /\ ind.sma_short = None \/ ind.sma_short.num # 0
    /\ ind.sma_long = None \/ ind.sma_long.num # 0
    /\ ind.macd = None \/ ind.macd.num # 0
    /\ ind.macd_signal = None \/ ind.macd_signal.num # 0
    /\ ind.bb_lower = None \/ ~BandIsZero(ind.bb_lower)
    /\ ind.bb_upper = None \/ ~BandIsZero(ind.bb_upper)
    /\ ind.current_price # 0

\* The part of C14 that holds: the rules fire as tabled on every snapshot
\* without a defined 0.
RulesFireWhenNonzero ==
    (pc = "generated" /\ NoDefinedZero(snapshot)) =>
        RulesFireAsTabled(snapshot, generated)

\* the MACD rule is skipped on MACD = 0 above a negative signal line
MacdZeroSkipped ==
    (/\ pc = "generated"
     /\ snapshot.macd = Rat(0, 1)
     /\ snapshot.macd_signal = Rat(-1, 1)) =>
        /\ snapshot.macd_histogram.num > 0
        /\ generated.macd_signal = "neutral"
        /\ \A k \in 1..Len(generated.reasons) :
               generated.reasons[k] # "MACD bullish crossover"

NonNeutral(sg) ==
    Cardinality({f \in {"rsi_signal", "ma_signal", "macd_signal", "bb_signal"} :
                    sg[f] # "neutral"})

\* C15: the overall signal is determined by the summed strength alone
\* (>= 0.4 strong_buy, [0.2, 0.4) buy, <= -0.4 strong_sell, (-0.4, -0.2]
\* sell, else hold); the strength is within [-1, 1] and the number of reasons
\* equals the number of non-neutral sub-signals.
C15_OverallFromStrength ==
    pc = "generated" =>
        LET st == generated.strength
        IN  /\ st >= 40 => generated.overall_signal = "strong_buy"
            /\ (20 <= st /\ st < 40) => generated.overall_signal = "buy"
            /\ st <= -40 => generated.overall_signal = "strong_sell"
            /\ (-40 < st /\ st <= -20) => generated.overall_signal = "sell"
            /\ (-20 < st /\ st < 20) => generated.overall_signal = "hold"
            /\ -100 <= st /\ st <= 100
            /\ Len(generated.reasons) = NonNeutral(generated)

\* C15 witness: a snapshot whose rules sum to exactly 0.4
C15_Witness ==
    /\ pc = "generated"
    /\ generated.strength = 40
    /\ generated.overall_signal = "strong_buy"
    /\ Len(generated.reasons) = 4

---------------------------------------------------------------------------
(* A call of calculate_rsi on a price series of its own *)

MaxRsiLen == 5
RsiPrices == {100, 101, 102}

RECURSIVE RsiSeriesOfLen(_)
RsiSeriesOfLen(n) ==
    IF n = 0 THEN {<<>>}
    ELSE {Append(t, p) : t \in RsiSeriesOfLen(n - 1), p \in RsiPrices}

\* <<prices, period>> of the modelled calls: short series with short periods,
\* and the generated series with the default period
RsiInputs ==
    {<<t, p>> : t \in UNION {RsiSeriesOfLen(n) : n \in 0..MaxRsiLen},
                p \in {2, 3}}
    \cup {<<HeadSeries(sh, h), config.rsi_period>> :
            sh \in AnalyzeShapes, h \in 0..(config.rsi_period + 2)}

CalculateRsi ==
    /\ pc = "rsi"
    /\ rsi_series' = calculate_rsi(data, rsi_period)
    /\ pc' = "rsi_done"
    /\ UNCHANGED <<data, initial_capital, position_size_pct, btLocals, results,
                   analysis, rsi_period, sigVars, riskVars, rankVars, allocVars,
                   scanVars, previous>>

InitRsi ==
    /\ \E inp \in RsiInputs : data = inp[1] /\ rsi_period = inp[2]
    /\ rsi_series = <<>>
    /\ initial_capital = 0
    /\ position_size_pct = 0
    /\ i = 0
    /\ capital = 0
    /\ position = 0
    /\ entry_price = 0
    /\ trades = <<>>
    /\ equity_curve = <<>>
    /\ results = <<>>
    /\ analysis = <<>>
    /\ SigIdle /\ RiskIdle /\ RankIdle /\ AllocIdle /\ ScanIdle /\ ReplayIdle
    /\ pc = "rsi"

NextRsi == CalculateRsi

SpecRsi == InitRsi /\ [][NextRsi]_vars

\* C16: calculate_rsi(prices, period) is aligned index-for-index with the
\* input and is undefined at the indices 0 .. period-1, where fewer than
\* `period` price deltas are available; index `period` is the first that can
\* carry a value.
C16_RsiUndefinedBeforePeriod ==
    pc = "rsi_done" =>
        /\ Len(rsi_series) = Len(data)
        /\ \A idx \in 0..(rsi_period - 1) :
               idx < Len(data) => rsi_series[idx + 1] = NaN

\* What calculate_rsi does: the undefined first delta is replaced by 0 and
\* counted, so only the indices 0 .. period-2 are undefined and index
\* period-1 carries a value whenever a price moved within the first `period`
\* bars.
RsiUndefinedBeforePeriodMinusOne ==
    pc = "rsi_done" =>
        /\ Len(rsi_series) = Len(data)
        /\ \A idx \in 0..(rsi_period - 2) :
               idx < Len(data) => rsi_series[idx + 1] = NaN
        /\ (/\ Len(data) >= rsi_period
            /\ \E k \in 2..rsi_period : data[k] # data[k - 1]) =>
               rsi_series[rsi_period] # NaN

---------------------------------------------------------------------------
(* RiskManager.  Fractions of the configuration are kept in percent        *)
(* (0.10 -> 10); reasons and warnings are kept without their numbers.      *)

RiskConfigs ==
    {[max_position_size |-> mps, max_daily_loss |-> 5, stop_loss_pct |-> 5,
      max_positions |-> 2] : mps \in {10, 150}}
PortfolioValues == {0, 900, 950, 1000, 1200}
RiskPrices == {50, 2000}
PositionCounts == {0, 1, 2}
TradeShares == {1, 3}
TradeActions == {"buy", "sell"}

Rejection(reason) ==
    [approved |-> FALSE, shares |-> 0, cost |-> 0, reason |-> reason]

\* "daily_loss_pct <= -self.max_daily_loss" with
\* daily_loss_pct = pnl / starting_value, for starting_value > 0
LossLimitReached(cfg, pnl, starting_value) ==
    100 * pnl <= (0 - cfg.max_daily_loss) * starting_value

\* faulty variant of calculate_position_size: the daily loss limit is tested
\* before the number of open positions
calculate_position_size_LossFirst(cfg, pnl, starting_value, current_price, portfolio_value, current_positions) ==
    LET shares == (portfolio_value * cfg.max_position_size) \div (100 * current_price)
        cost   == shares * current_price
    IN  IF starting_value > 0 /\ LossLimitReached(cfg, pnl, starting_value)
        THEN Rejection("Daily loss limit reached")
        ELSE IF current_positions >= cfg.max_positions
        THEN Rejection("Max positions reached")
        ELSE IF shares = 0 THEN Rejection("Insufficient capital for position")
        ELSE IF cost > portfolio_value
        THEN Rejection("Position cost exceeds portfolio value")
        ELSE [approved |-> TRUE, shares |-> shares, cost |-> cost,
              reason |-> "Position approved"]

\* faulty variant of calculate_position_size: the recorded daily P/L is not
\* consulted
calculate_position_size_NoLossCheck(cfg, pnl, starting_value, current_price, portfolio_value, current_positions) ==
    LET shares == (portfolio_value * cfg.max_position_size) \div (100 * current_price)
        cost   == shares * current_price
    IN  IF current_positions >= cfg.max_positions
        THEN Rejection("Max positions reached")
        ELSE IF shares = 0 THEN Rejection("Insufficient capital for position")
        ELSE IF cost > portfolio_value
        THEN Rejection("Position cost exceeds portfolio value")
        ELSE [approved |-> TRUE, shares |-> shares, cost |-> cost,
              reason |-> "Position approved"]

\* RiskManager.calculate_position_size: the returned dict (without 'symbol'),
\* from the manager's fields and the arguments
calculate_position_size(cfg, pnl, starting_value, current_price, portfolio_value, current_positions) ==
    LET shares == (portfolio_value * cfg.max_position_size) \div (100 * current_price)
        cost   == shares * current_price
    IN  IF current_positions >= cfg.max_positions
        THEN Rejection("Max positions reached")
        ELSE IF starting_value > 0 /\ LossLimitReached(cfg, pnl, starting_value)
        THEN Rejection("Daily loss limit reached")
        ELSE IF shares = 0 THEN Rejection("Insufficient capital for position")
        ELSE IF cost > portfolio_value
        THEN Rejection("Position cost exceeds portfolio value")
        ELSE [approved |-> TRUE, shares |-> shares, cost |-> cost,
              reason |-> "Position approved"]

\* entry_price * (1 - stop_loss_pct), direction 'long'
calculate_stop_loss(cfg, price) == Rat(price * (100 - cfg.stop_loss_pct), 100)

\* entry_price + entry_price * stop_loss_pct * risk_reward_ratio, 'long'
calculate_take_profit(cfg, price, risk_reward_ratio) ==
    Rat(price * (100 + cfg.stop_loss_pct * risk_reward_ratio), 100)

\* should_stop_trading: <<returned value, daily_pnl afterwards>>
should_stop_trading(cfg, pnl, starting_value, current_portfolio_value) ==
    IF starting_value = 0 THEN <<FALSE, pnl>>
    ELSE LET new_pnl == current_portfolio_value - starting_value
         IN  <<LossLimitReached(cfg, new_pnl, starting_value), new_pnl>>

\* validate_trade: the returned dict, given what should_stop_trading returned
validate_trade(cfg, stop, shares, price, action, portfolio_value) ==
    IF stop
    THEN [approved |-> FALSE, warnings |-> <<"Daily loss limit reached">>,
          stop_loss |-> None, take_profit |-> None]
    ELSE IF action = "buy"
    THEN LET cost     == shares * price
             too_big  == portfolio_value > 0
                         /\ 100 * cost > cfg.max_position_size * portfolio_value
         IN  [approved    |-> ~too_big,
              warnings    |-> IF too_big THEN <<"Position size exceeds limit">>
                              ELSE <<>>,
              stop_loss   |-> calculate_stop_loss(cfg, price),
              take_profit |-> calculate_take_profit(cfg, price, 2)]
    ELSE [approved |-> TRUE, warnings |-> <<>>,
          stop_loss |-> None, take_profit |-> None]

\* each call flips last_call.tick, so that two equal calls in a row differ
Tick == 1 - last_call.tick

SetStartingPortfolioValue ==
    /\ pc = "risk"
    /\ \E value \in PortfolioValues :
         /\ starting_portfolio_value' = value
         /\ last_call' = [tick |-> Tick, op |-> "set_starting_portfolio_value",
                          value |-> value]
    /\ UNCHANGED <<risk_config, daily_pnl>>

ShouldStopTrading ==
    /\ pc = "risk"
    /\ \E value \in PortfolioValues :
         LET r == should_stop_trading(risk_config, daily_pnl,
                                      starting_portfolio_value, value)
         IN  /\ daily_pnl' = r[2]
             /\ last_call' = [tick |-> Tick, op |-> "should_stop_trading",
                              current_portfolio_value |-> value, result |-> r[1]]
    /\ UNCHANGED <<risk_config, starting_portfolio_value>>

ValidateTrade ==
    /\ pc = "risk"
    /\ \E shares \in TradeShares, price \in RiskPrices, action \in TradeActions,
          value \in PortfolioValues :
         LET r == should_stop_trading(risk_config, daily_pnl,
                                      starting_portfolio_value, value)
         IN  /\ daily_pnl' = r[2]
             /\ last_call' =
                  [tick |-> Tick, op |-> "validate_trade", shares |-> shares,
                   price |-> price, action |-> action, portfolio_value |-> value,
                   result |-> validate_trade(risk_config, r[1], shares, price,
                                             action, value)]
    /\ UNCHANGED <<risk_config, starting_portfolio_value>>

CalculatePositionSize ==
    /\ pc = "risk"
    /\ \E price \in RiskPrices, value \in PortfolioValues, n \in PositionCounts :
         last_call' =
            [tick |-> Tick, op |-> "calculate_position_size",
             current_price |-> price, portfolio_value |-> value,
             current_positions |-> n,
             result |-> calculate_position_size(risk_config, daily_pnl,
                            starting_portfolio_value, price, value, n)]
    /\ UNCHANGED <<risk_config, daily_pnl, starting_portfolio_value>>

InitRisk ==
    /\ risk_config \in RiskConfigs
    /\ daily_pnl = 0
    /\ starting_portfolio_value = 0
    /\ last_call = [tick |-> 0, op |-> "__init__"]
    /\ BacktestIdle
    /\ SigIdle /\ RsiIdle /\ RankIdle /\ AllocIdle /\ ScanIdle /\ ReplayIdle
    /\ pc = "risk"

NextRisk ==
    /\ \/ SetStartingPortfolioValue
       \/ ShouldStopTrading
       \/ ValidateTrade
       \/ CalculatePositionSize
    /\ UNCHANGED <<data, initial_capital, position_size_pct, btLocals, results,
                   analysis, pc, sigVars, rsiVars, rankVars, allocVars,
                   scanVars, previous>>

SpecRisk == InitRisk /\ [][NextRisk]_vars

\* a step that is a call of calculate_position_size
SizingCall ==
    /\ last_call'.tick # last_call.tick
    /\ last_call'.op = "calculate_position_size"

\* C17: calculate_position_size applies its checks in the order (1) open
\* positions >= max_positions, (2) daily loss limit, (3) shares =
\* floor(portfolio_value * max_position_size / price) = 0, (4) shares * price
\* > portfolio_value; the first failing check returns a rejection (approved
\* False, shares 0, cost 0, a non-empty reason); otherwise the result is
\* approved with shares = that floor >= 1 and cost = shares * price <=
\* portfolio_value.  The call changes no RiskManager state.  (Prices are
\* positive and portfolio values are not negative.)
C17_SizingChecksInOrder ==
    [][SizingCall =>
        LET c      == last_call'
            r      == c.result
            floor  == (c.portfolio_value * risk_config.max_position_size)
                      \div (100 * c.current_price)
            check1 == c.current_positions >= risk_config.max_positions
            check2 == /\ starting_portfolio_value > 0
                      /\ 100 * daily_pnl <=
                            (0 - risk_config.max_daily_loss) * starting_portfolio_value
            check3 == floor = 0
            check4 == floor * c.current_price > c.portfolio_value
        IN  /\ UNCHANGED <<risk_config, daily_pnl, starting_portfolio_value>>
            /\ check1 => r.reason = "Max positions reached"
            /\ (~check1 /\ check2) => r.reason = "Daily loss limit reached"
            /\ (~check1 /\ ~check2 /\ check3) =>
                   r.reason = "Insufficient capital for position"
            /\ (~check1 /\ ~check2 /\ ~check3 /\ check4) =>
                   r.reason = "Position cost exceeds portfolio value"
            /\ r.approved <=> ~(check1 \/ check2 \/ check3 \/ check4)
            /\ r.approved =>
                   /\ r.shares = floor
                   /\ r.shares >= 1
                   /\ r.cost = r.shares * c.current_price
                   /\ r.cost <= c.portfolio_value
            /\ ~r.approved => r.shares = 0 /\ r.cost = 0 /\ r.reason # ""
    ]_vars

\* C17 witness: an approval after a loss within the limit was recorded
C17_Witness ==
    /\ pc = "risk"
    /\ last_call.op = "calculate_position_size"
    /\ last_call.result.approved
    /\ last_call.result.shares >= 2
    /\ daily_pnl < 0

\* C17 witness: a rejection by the fourth check
C17_WitnessCostExceeds ==
    /\ pc = "risk"
    /\ last_call.op = "calculate_position_size"
    /\ last_call.result.reason = "Position cost exceeds portfolio value"

\* the recorded daily P/L, relative to the day's starting portfolio value, is
\* at or below -max_daily_loss
LossRecorded ==
    /\ starting_portfolio_value > 0
    /\ 100 * daily_pnl <= (0 - risk_config.max_daily_loss) * starting_portfolio_value

---------------------------------------------------------------------------
(* PortfolioManager.rank_opportunities.  Signal strengths and min_ratio    *)
(* are kept in hundredths; ratios are exact fractions.                     *)

MaxAnalyses == 3
RankSymbols == <<"A", "B", "C", "D", "E">>

\* <<recommendation, current_price, signal_strength>> of a candidate
Candidates ==
    {<<"BUY", 50, st>> : st \in {-50, 60, 75, 125, 150}}
    \cup {<<"STRONG_BUY", 50, 75>>, <<"STRONG_BUY", 50, 150>>,
          <<"HOLD", 50, 150>>, <<"BUY", 2000, 150>>}

RECURSIVE AnalysesOfLen(_)
AnalysesOfLen(n) ==
    IF n = 0 THEN {<<>>}
    ELSE {Append(t, [symbol          |-> RankSymbols[n],
                     recommendation  |-> c[1],
                     current_price   |-> c[2],
                     signal_strength |-> c[3]]) :
            t \in AnalysesOfLen(n - 1), c \in Candidates}

AnalysesLists == UNION {AnalysesOfLen(n) : n \in 0..MaxAnalyses}

\* <<daily_pnl, starting_portfolio_value>> of the risk manager at the call
RankRiskStates == {<<0, 1000>>, <<-100, 1000>>}
MinRatios == {0, 150}

Max0(x) == IF x > 0 THEN x ELSE 0

RECURSIVE Gcd(_, _)
Gcd(a, b) == IF b = 0 THEN a ELSE Gcd(b, a % b)

Abs(x) == IF x < 0 THEN 0 - x ELSE x

\* the fraction n / d (d # 0) in lowest terms with a positive denominator
Reduced(n, d) ==
    LET g == Gcd(Abs(n), Abs(d))
        sg == IF d < 0 THEN -1 ELSE 1
    IN  Rat(sg * (n \div g), sg * (d \div g))

\* calculate_risk_reward_ratio: <<adjusted_ratio, details>>
calculate_risk_reward_ratio(cfg, pnl, starting_value, acct, an) ==
    LET current_price   == an.current_price
        position_result == calculate_position_size(cfg, pnl, starting_value,
                               current_price, acct.portfolio_value, 0)
        stop_loss       == calculate_stop_loss(cfg, current_price)
        take_profit     == calculate_take_profit(cfg, current_price, 2)
        \* current_price - stop_loss, take_profit - current_price
        risk_per_share   == Rat(current_price * stop_loss.den - stop_loss.num,
                                stop_loss.den)
        reward_per_share == Rat(take_profit.num - current_price * take_profit.den,
                                take_profit.den)
        risk_reward_ratio ==
            IF risk_per_share.num = 0 THEN NaN
            ELSE Reduced(reward_per_share.num * risk_per_share.den,
                         reward_per_share.den * risk_per_share.num)
        adjusted_ratio == Reduced(risk_reward_ratio.num * Max0(an.signal_strength),
                                  risk_reward_ratio.den * 100)
    IN  IF ~position_result.approved
        THEN <<Rat(0, 1), [error |-> position_result.reason]>>
        ELSE IF position_result.cost = 0
        THEN <<Rat(0, 1), [error |-> "Position size too small"]>>
        ELSE IF risk_per_share.num <= 0
        THEN <<Rat(0, 1), [error |-> "Invalid risk calculation"]>>
        ELSE <<adjusted_ratio,
               [current_price         |-> current_price,
                stop_loss             |-> stop_loss,
                take_profit           |-> take_profit,
                risk_per_share        |-> risk_per_share,
                reward_per_share      |-> reward_per_share,
                risk_reward_ratio     |-> risk_reward_ratio,
                signal_strength       |-> an.signal_strength,
                adjusted_ratio        |-> adjusted_ratio,
                position_size_dollars |-> position_result.cost]>>

\* faulty variant of BelowMinimum: a ratio equal to min_ratio is discarded
BelowMinimum_OrEqual(ratio, minimum) == RatLe(ratio, Rat(minimum, 100))

\* "if ratio < min_ratio: continue"
BelowMinimum(ratio, minimum) == RatLt(ratio, Rat(minimum, 100))

\* the loop of rank_opportunities over analyses[k..]: the opportunities
\* appended, in order
RECURSIVE Qualified(_, _, _, _, _, _, _)
Qualified(cfg, pnl, starting_value, acct, ans, minimum, k) ==
    IF k > Len(ans) THEN <<>>
    ELSE LET an   == ans[k]
             rr   == calculate_risk_reward_ratio(cfg, pnl, starting_value, acct, an)
             rest == Qualified(cfg, pnl, starting_value, acct, ans, minimum, k + 1)
         IN  IF an.recommendation \notin {"BUY", "STRONG_BUY"} THEN rest
             ELSE IF "error" \in DOMAIN rr[2] THEN rest
             ELSE IF BelowMinimum(rr[1], minimum) THEN rest
             ELSE <<[symbol |-> an.symbol, analysis |-> an,
                     risk_reward_ratio |-> rr[1], details |-> rr[2]]>> \o rest

\* list.sort(key=..., reverse=True): stable, highest ratio first
RECURSIVE SortByRatioDescending(_)
SortByRatioDescending(opps) ==
    IF Len(opps) <= 1 THEN opps
    ELSE LET n      == Len(opps)
             sorted == SortByRatioDescending(SubSeq(opps, 1, n - 1))
             x      == opps[n]
             \* x goes after every element whose ratio is >= its own
             ahead  == Cardinality({j \in 1..(n - 1) :
                          RatLe(x.risk_reward_ratio, sorted[j].risk_reward_ratio)})
         IN  SubSeq(sorted, 1, ahead) \o <<x>> \o SubSeq(sorted, ahead + 1, n - 1)

rank_opportunities(cfg, pnl, starting_value, acct, ans, minimum) ==
    SortByRatioDescending(Qualified(cfg, pnl, starting_value, acct, ans, minimum, 1))

RankOpportunities ==
    /\ pc = "rank"
    /\ opportunities' = rank_opportunities(risk_config, daily_pnl,
                            starting_portfolio_value, account, analyses, min_ratio)
    /\ pc' = "ranked"
    /\ UNCHANGED <<data, initial_capital, position_size_pct, btLocals, results,
                   analysis, sigVars, rsiVars, riskVars, account, analyses,
                   min_ratio, allocVars,
                   scanVars, previous>>

InitRank ==
    /\ risk_config = [max_position_size |-> 10, max_daily_loss |-> 5,
                      stop_loss_pct |-> 5, max_positions |-> 2]
    /\ \E rs \in RankRiskStates :
         daily_pnl = rs[1] /\ starting_portfolio_value = rs[2]
    /\ last_call = <<>>
    /\ account = [portfolio_value |-> 1000]
    /\ analyses \in AnalysesLists
    /\ min_ratio \in MinRatios
    /\ opportunities = <<>>
    /\ BacktestIdle
    /\ SigIdle /\ RsiIdle /\ AllocIdle /\ ScanIdle /\ ReplayIdle
    /\ pc = "rank"

NextRank == RankOpportunities

SpecRank == InitRank /\ [][NextRank]_vars

\* the sizing of candidate an is approved: a slot is free, no daily loss at
\* the limit is recorded, and at least one share fits the position budget
SizingApproved(an) ==
    LET shares == (account.portfolio_value * risk_config.max_position_size)
                  \div (100 * an.current_price)
    IN  /\ 0 < risk_config.max_positions
        /\ ~LossRecorded
        /\ shares >= 1
        /\ shares * an.current_price <= account.portfolio_value

\* (take_profit - price) / (price - stop_loss) * max(0, strength) of an, as
\* a fraction: take_profit - price = price * stop_loss_pct * 2 and
\* price - stop_loss = price * stop_loss_pct, both in hundredths
ScaledRatio(an) ==
    Rat(an.current_price * risk_config.stop_loss_pct * 2 * Max0(an.signal_strength),
        an.current_price * risk_config.stop_loss_pct * 100)

QualifiesForRanking(an) ==
    /\ an.recommendation \in {"BUY", "STRONG_BUY"}
    /\ SizingApproved(an)
    /\ RatLe(Rat(min_ratio, 100), ScaledRatio(an))

\* C19: rank_opportunities returns exactly the candidates whose
\* recommendation is BUY or STRONG_BUY, whose sizing is approved and whose
\* strength-scaled risk/reward ratio is >= min_ratio (equality included),
\* each with that ratio, in non-increasing order of the ratio.
C19_RankedOpportunities ==
    pc = "ranked" =>
        LET qualifying == {k \in 1..Len(analyses) : QualifiesForRanking(analyses[k])}
        IN  /\ Len(opportunities) = Cardinality(qualifying)
            /\ \A k \in qualifying : \E j \in 1..Len(opportunities) :
                   /\ opportunities[j].symbol = analyses[k].symbol
                   /\ opportunities[j].analysis = analyses[k]
                   /\ RatEq(opportunities[j].risk_reward_ratio,
                            ScaledRatio(analyses[k]))
            /\ \A j \in 1..Len(opportunities) : \E k \in qualifying :
                   opportunities[j].symbol = analyses[k].symbol
            /\ \A j \in 1..(Len(opportunities) - 1) :
                   RatLe(opportunities[j + 1].risk_reward_ratio,
                         opportunities[j].risk_reward_ratio)

\* C19 witness: scaled ratios [2.5, 1.2, 3.0] with min_ratio 1.5 are ranked
\* [3.0, 2.5]
C19_Witness ==
    /\ pc = "ranked"
    /\ min_ratio = 150
    /\ Len(analyses) = 3
    /\ \A k \in 1..3 : /\ analyses[k].recommendation = "BUY"
                       /\ SizingApproved(analyses[k])
    /\ <<analyses[1].signal_strength, analyses[2].signal_strength,
         analyses[3].signal_strength>> = <<125, 60, 150>>
    /\ Len(opportunities) = 2
    /\ opportunities[1].symbol = "C" /\ opportunities[1].risk_reward_ratio = Rat(3, 1)
    /\ opportunities[2].symbol = "A" /\ opportunities[2].risk_reward_ratio = Rat(5, 2)

\* C19 witness: a candidate whose scaled ratio is exactly min_ratio is ranked
C19_WitnessBoundary ==
    /\ pc = "ranked"
    /\ min_ratio = 150
    /\ \E j \in 1..Len(opportunities) :
           opportunities[j].risk_reward_ratio = Rat(3, 2)

---------------------------------------------------------------------------
(* PortfolioManager.allocate_capital *)

MaxOpportunities == 3
SizedCosts == {90, 100, 250}            \* details['position_size_dollars']
AllocPrices == {30, 120}
AvailableCapitals == {0, 150, 400}
OpenPositionCounts == {0, 1, 2, 3}
AllocConfig == [max_position_size |-> 10, max_daily_loss |-> 5,
                stop_loss_pct |-> 5, max_positions |-> 2]

\* an opportunity as rank_opportunities builds it
Opportunity(symbol, price, sized_cost) ==
    LET stop_loss   == calculate_stop_loss(AllocConfig, price)
        take_profit == calculate_take_profit(AllocConfig, price, 2)
    IN  [symbol            |-> symbol,
         risk_reward_ratio |-> Rat(2, 1),
         details |->
            [current_price         |-> price,
             stop_loss             |-> stop_loss,
             take_profit           |-> take_profit,
             risk_per_share        |-> Rat(price * AllocConfig.stop_loss_pct, 100),
             reward_per_share      |-> Rat(price * AllocConfig.stop_loss_pct * 2, 100),
             position_size_dollars |-> sized_cost]]

RECURSIVE OpportunitiesOfLen(_)
OpportunitiesOfLen(n) ==
    IF n = 0 THEN {<<>>}
    ELSE {Append(t, Opportunity(RankSymbols[n], p, c)) :
            t \in OpportunitiesOfLen(n - 1), p \in AllocPrices, c \in SizedCosts}

OpportunityLists == UNION {OpportunitiesOfLen(n) : n \in 0..MaxOpportunities}

\* faulty variant of PositionSize: the remaining capital is not a cap
PositionSize_Uncapped(sized_cost, remaining) == sized_cost

\* min(details['position_size_dollars'], remaining_capital)
PositionSize(sized_cost, remaining) ==
    IF sized_cost <= remaining THEN sized_cost ELSE remaining

Allocation(opp, shares) ==
    LET details == opp.details
    IN  [symbol            |-> opp.symbol,
         shares            |-> shares,
         entry_price       |-> details.current_price,
         cost              |-> shares * details.current_price,
         stop_loss         |-> details.stop_loss,
         take_profit       |-> details.take_profit,
         risk_reward_ratio |-> opp.risk_reward_ratio,
         max_loss          |-> Rat(shares * details.risk_per_share.num,
                                   details.risk_per_share.den),
         max_gain          |-> Rat(shares * details.reward_per_share.num,
                                   details.reward_per_share.den)]

available_slots == risk_config.max_positions - open_positions

positions_to_fill ==
    IF Len(opportunities) <= available_slots THEN Len(opportunities)
    ELSE available_slots

\* lines 198-210: the locals, and the early return when no slot is free
BeginAllocate ==
    /\ pc = "allocate"
    /\ allocations' = <<>>
    /\ remaining_capital' = available_capital
    /\ slot' = 0
    /\ pc' = IF available_slots <= 0 THEN "allocated"
             ELSE IF diversify THEN "alloc_loop" ELSE "alloc_best"
    /\ UNCHANGED <<available_capital, open_positions, diversify>>

\* lines 216-252: one iteration of the loop over opportunities[:positions_to_fill]
AllocateSlot ==
    /\ pc = "alloc_loop"
    /\ slot < positions_to_fill
    /\ LET opp           == opportunities[slot + 1]
           position_size == PositionSize(opp.details.position_size_dollars,
                                         remaining_capital)
           shares        == position_size \div opp.details.current_price
       IN  IF position_size < 100 \/ shares < 1
           THEN UNCHANGED <<allocations, remaining_capital>>
           ELSE /\ allocations' = Append(allocations, Allocation(opp, shares))
                /\ remaining_capital' =
                       remaining_capital - shares * opp.details.current_price
    /\ slot' = slot + 1
    /\ UNCHANGED <<available_capital, open_positions, diversify, pc>>

\* the loop is over: return allocations
EndAllocate ==
    /\ pc = "alloc_loop"
    /\ slot >= positions_to_fill
    /\ pc' = "allocated"
    /\ UNCHANGED allocVars

\* lines 257-290: diversify False, everything into the best opportunity
AllocateBest ==
    /\ pc = "alloc_best"
    /\ IF Len(opportunities) > 0
       THEN LET best          == opportunities[1]
                position_size == PositionSize(best.details.position_size_dollars,
                                              available_capital)
                shares        == position_size \div best.details.current_price
            IN  IF shares >= 1
                THEN allocations' = Append(allocations, Allocation(best, shares))
                ELSE UNCHANGED allocations
       ELSE UNCHANGED allocations
    /\ pc' = "allocated"
    /\ UNCHANGED <<available_capital, open_positions, diversify, slot,
                   remaining_capital>>

InitAllocate ==
    /\ risk_config = AllocConfig
    /\ daily_pnl = 0
    /\ starting_portfolio_value = 0
    /\ last_call = <<>>
    /\ account = [portfolio_value |-> 1000]
    /\ analyses = <<>>
    /\ min_ratio = 0
    /\ opportunities \in OpportunityLists
    /\ available_capital \in AvailableCapitals
    /\ open_positions \in OpenPositionCounts
    /\ diversify \in BOOLEAN
    /\ slot = 0
    /\ remaining_capital = 0
    /\ allocations = <<>>
    /\ BacktestIdle
    /\ SigIdle /\ RsiIdle /\ ScanIdle /\ ReplayIdle
    /\ pc = "allocate"

NextAllocate ==
    /\ \/ BeginAllocate
       \/ AllocateSlot
       \/ EndAllocate
       \/ AllocateBest
    /\ UNCHANGED <<data, initial_capital, position_size_pct, btLocals, results,
                   analysis, sigVars, rsiVars, riskVars, rankVars,
                   scanVars, previous>>

SpecAllocate == InitAllocate /\ [][NextAllocate]_vars

RECURSIVE SumOfCosts(_)
SumOfCosts(allocs) ==
    IF allocs = <<>> THEN 0
    ELSE allocs[1].cost + SumOfCosts(Tail(allocs))

C21_CostFloor ==
    (diversify /\ pc = "allocated") =>
        \A j \in 1..Len(allocations) : allocations[j].cost >= 100

\* What the code keeps: the floor is on the dollars offered to the slot, and
\* the cost falls short of the offer by less than one share.
OfferedFloor ==
    (diversify /\ pc = "allocated") =>
        \A j \in 1..Len(allocations) :
            allocations[j].cost + allocations[j].entry_price > 100

---------------------------------------------------------------------------
(* TradingStrategy.analyze_symbol and scan_watchlist.  The latest price is  *)
(* None or a number; a price history is None, the empty frame <<>> or the  *)
(* 'close' column of a frame.                                              *)

MaxWatch == 3                           \* longest watchlist
FallbackBars == 20                      \* "[current_price] * 20"
WatchSymbols == {"A", "B", "C"}
LatestPrices == {None, Rat(0, 1), Rat(100, 1)}
NoHistory == [k |-> "none"]
PriceHistories ==
    {NoHistory, <<>>, HeadSeries("down", FlatLen), HeadSeries("up_zigzag", FlatLen)}
Quotes == [price : LatestPrices, history : PriceHistories]

RECURSIVE WatchListsOfLen(_)
WatchListsOfLen(n) ==
    IF n = 0 THEN {<<>>}
    ELSE {Append(w, s) : w \in WatchListsOfLen(n - 1), s \in WatchSymbols}

\* lists of distinct symbols, in every order
WatchLists ==
    {w \in UNION {WatchListsOfLen(n) : n \in 0..MaxWatch} :
        \A a, b \in 1..Len(w) : a # b => w[a] # w[b]}

\* lines 57-64: the frame analyze_stock is given
FrameFor(quote) ==
    IF quote.history = NoHistory \/ quote.history = <<>>
    THEN [k \in 1..FallbackBars |-> quote.price.num]
    ELSE quote.history

\* lines 46-83; None when the symbol is given up
analyze_symbol(quote, symbol) ==
    IF ~Truthy(quote.price) THEN None
    ELSE LET an == AnalysisOf[FrameFor(quote)]
         IN  IF "error" \in DOMAIN an THEN None
             ELSE [symbol        |-> symbol,
                   current_price |-> quote.price,
                   indicators    |-> an.indicators,
                   signals       |-> an.signals]

\* faulty variant of SortByStrengthDescending: completion order is kept
SortByStrengthDescending_Unsorted(rs) == rs

\* list.sort(key=strength, reverse=True): stable, strongest first
RECURSIVE SortByStrengthDescending(_)
SortByStrengthDescending(rs) ==
    IF Len(rs) <= 1 THEN rs
    ELSE LET n      == Len(rs)
             sorted == SortByStrengthDescending(SubSeq(rs, 1, n - 1))
             x      == rs[n]
             ahead  == Cardinality({j \in 1..(n - 1) :
                          sorted[j].signals.strength >= x.signals.strength})
         IN  SubSeq(sorted, 1, ahead) \o <<x>> \o SubSeq(sorted, ahead + 1, n - 1)

\* lines 101-104: one iteration of the loop over symbols
ScanSymbol ==
    /\ pc = "scan"
    /\ scan_index < Len(symbols)
    /\ LET symbol == symbols[scan_index + 1]
           an     == analyze_symbol(feed[symbol], symbol)
       IN  scan_results' = IF an # None THEN Append(scan_results, an)
                           ELSE scan_results
    /\ scan_index' = scan_index + 1
    /\ UNCHANGED <<symbols, feed, pc>>

\* lines 106-109: sort and return
ReturnScan ==
    /\ pc = "scan"
    /\ scan_index = Len(symbols)
    /\ scan_results' = SortByStrengthDescending(scan_results)
    /\ pc' = "scanned"
    /\ UNCHANGED <<symbols, feed, scan_index>>

InitScan ==
    /\ symbols \in WatchLists
    /\ feed \in [{symbols[k] : k \in 1..Len(symbols)} -> Quotes]
    /\ scan_index = 0
    /\ scan_results = <<>>
    /\ pc = "scan"
    /\ BacktestIdle
    /\ SigIdle /\ RsiIdle /\ RiskIdle /\ RankIdle /\ AllocIdle /\ ReplayIdle

NextScan ==
    /\ \/ ScanSymbol
       \/ ReturnScan
    /\ UNCHANGED <<data, initial_capital, position_size_pct, btLocals, results,
                   analysis, sigVars, rsiVars, riskVars, rankVars, allocVars,
                   previous>>

SpecScan == InitScan /\ [][NextScan]_vars

HistoryMissing(quote) == quote.history = NoHistory \/ quote.history = <<>>

Scanned(symbol) == \E j \in 1..Len(scan_results) : scan_results[j].symbol = symbol

\* C22: a symbol whose price history is missing or empty gets the no-data
\* outcome None from analyze_symbol and does not appear in the results of
\* scan_watchlist, which goes on with the other symbols.
C22_MissingHistorySkipped ==
    pc = "scanned" =>
        \A k \in 1..Len(symbols) :
            HistoryMissing(feed[symbols[k]]) =>
                /\ analyze_symbol(feed[symbols[k]], symbols[k]) = None
                /\ ~Scanned(symbols[k])

\* What the code does: a symbol without history but with a latest price is
\* analysed on FallbackBars copies of that price and is reported with the
\* Bollinger buy of a flat series.
MissingHistoryFabricated ==
    pc = "scanned" =>
        \A k \in 1..Len(symbols) :
            LET quote == feed[symbols[k]]
            IN  HistoryMissing(quote) =>
                    (Scanned(symbols[k]) <=> Truthy(quote.price))

\* the symbols whose analysis succeeded
Succeeded(symbol) == analyze_symbol(feed[symbol], symbol) # None

\* C23: scan_watchlist returns exactly one result per symbol whose analysis
\* succeeded, whatever the order of the symbols and whichever price lookups
\* fail, ordered by non-increasing signal strength; a failing symbol neither
\* aborts the scan nor removes another symbol's result.
C23_ScanResults ==
    pc = "scanned" =>
        /\ \A k \in 1..Len(symbols) :
               Cardinality({j \in 1..Len(scan_results) :
                               scan_results[j].symbol = symbols[k]})
                   = (IF Succeeded(symbols[k]) THEN 1 ELSE 0)
        /\ \A j \in 1..Len(scan_results) :
               /\ \E k \in 1..Len(symbols) : symbols[k] = scan_results[j].symbol
               /\ scan_results[j] =
                      analyze_symbol(feed[scan_results[j].symbol],
                                     scan_results[j].symbol)
        /\ \A j \in 1..(Len(scan_results) - 1) :
               scan_results[j].signals.strength
                   >= scan_results[j + 1].signals.strength

\* C23 witness: the first symbol's price lookup fails, the second symbol is
\* weaker than the third, and the result lists the third before the second
C23_Witness ==
    /\ pc = "scanned"
    /\ Len(symbols) = 3
    /\ feed[symbols[1]].price = None
    /\ Len(scan_results) = 2
    /\ scan_results[1].symbol = symbols[3]
    /\ scan_results[2].symbol = symbols[2]
    /\ scan_results[1].signals.strength > scan_results[2].signals.strength

---------------------------------------------------------------------------
(* Further properties of run_backtest *)

\* C24: for every price series of any length >= 0, the empty one included,
\* run_backtest ends with a returned value and never raises.
C24_NeverRaises == pc # "raised"

\* What the code does: only the empty series raises
RaisesOnlyOnEmpty == pc = "raised" <=> (Len(data) = 0 /\ pc # "start")

\* the bars the series of the two calls share and the second call has processed
SharedBars ==
    LET n == CommonBars(data, previous.data) IN IF i <= n THEN i ELSE n

\* the trades stamped with one of the first m bars
TradesUpTo(ts, m) ==
    LET Early(t) == t.date < m IN SelectSeq(ts, Early)

\* the trades the loop decided at one of the first m bars
DecidedUpTo(ts, m) ==
    LET Early(t) == t.date < m /\ t.signal # "end_of_test" IN SelectSeq(ts, Early)

InSecondRun == previous # <<>> /\ pc \in {"loop", "metrics", "done"}

\* C25 as stated: two series that agree on bars 0..i give identical trade
\* lists and equity curves up to and including bar i, whatever follows.
C25_NoLookAhead ==
    InSecondRun =>
        /\ SubSeq(equity_curve, 1, SharedBars + 1)
               = SubSeq(previous.equity_curve, 1, SharedBars + 1)
        /\ TradesUpTo(trades, SharedBars) = TradesUpTo(previous.trades, SharedBars)

\* C25 amended: the equity curves and the trades decided in the loop are
\* identical up to and including bar i; the forced "End of backtest" sale of
\* a series that ends there is not among them.
C25_NoLookAheadInLoop ==
    InSecondRun =>
        /\ SubSeq(equity_curve, 1, SharedBars + 1)
               = SubSeq(previous.equity_curve, 1, SharedBars + 1)
        /\ DecidedUpTo(trades, SharedBars) = DecidedUpTo(previous.trades, SharedBars)

\* C25 witness: the two series differ in their last bar only, a trade was
\* decided on a shared bar, and the runs part on the last bar
C25_Witness ==
    /\ previous # <<>>
    /\ pc = "done"
    /\ Len(data) = Len(previous.data)
    /\ CommonBars(data, previous.data) = Len(data) - 1
    /\ DecidedUpTo(trades, Len(data) - 1) # <<>>
    /\ DecidedUpTo(trades, Len(data)) # DecidedUpTo(previous.trades, Len(data))

\* the first series is a prefix of the second and ended LONG: its forced sale
\* is stamped with a shared bar
C25_WitnessLiquidated ==
    /\ previous # <<>>
    /\ pc = "done"
    /\ CommonBars(data, previous.data) = Len(previous.data)
    /\ Len(data) = Len(previous.data) + 1
    /\ previous.trades # <<>>
    /\ previous.trades[Len(previous.trades)].signal = "end_of_test"

\* shares * (exit price - entry price), summed over the BUY/SELL pairs of ts
RECURSIVE RoundTripGains(_)
RoundTripGains(ts) ==
    IF Len(ts) < 2 THEN 0
    ELSE ts[2].shares * (ts[2].price - ts[1].price)
             + RoundTripGains(SubSeq(ts, 3, Len(ts)))

\* every SELL follows a BUY and sells exactly its share count
SellsWhatWasBought(ts) ==
    \A k \in 1..Len(ts) :
        IF k % 2 = 1 THEN ts[k].type = "BUY"
        ELSE ts[k].type = "SELL" /\ ts[k].shares = ts[k - 1].shares

\* C26: capital conservation in run_backtest: final_capital is initial_capital
\* plus the sum over the BUY/SELL round trips of shares * (exit price - entry
\* price), each SELL selling exactly the share count of the preceding BUY; no
\* cash appears or disappears outside the recorded trades.
C26_CapitalConservation ==
    /\ pc \in {"loop", "metrics", "done"} => SellsWhatWasBought(trades)
    /\ pc = "loop" =>
          /\ capital + position * entry_price
                 = initial_capital + RoundTripGains(trades)
          /\ position > 0 <=> Len(trades) % 2 = 1
    /\ pc = "done" =>
          /\ Len(results.trades) % 2 = 0
          /\ results.final_capital
                 = initial_capital + RoundTripGains(results.trades)

\* C26 witness: two round trips, money was made or lost
C26_Witness ==
    /\ pc = "done"
    /\ results.total_trades >= 4
    /\ results.final_capital # initial_capital
    /\ results.trades[2].price # results.trades[1].price
    /\ results.trades[4].price # results.trades[3].price

\* C27: for every non-empty price series the last point of the returned
\* equity curve equals final_capital, also when the run ends LONG and is
\* liquidated at the last close, so total_return_pct agrees with the return
\* between the first and the last equity point.
C27_LastEquityIsFinalCapital ==
    (pc = "done" /\ Len(data) >= 1) =>
        LET eq    == results.equity_curve
            first == eq[1]
            last  == eq[Len(eq)]
        IN  /\ last = results.final_capital
            /\ first = results.initial_capital
            /\ RatEq(results.total_return_pct, Rat((last - first) * 100, first))

\* C27 witness: the run ended LONG, above or below its entry price
C27_Witness ==
    /\ pc = "done"
    /\ results.trades # <<>>
    /\ results.trades[Len(results.trades)].signal = "end_of_test"
    /\ results.trades[Len(results.trades)].pnl_pct.num # 0
    /\ results.final_capital # initial_capital

C28_WitnessRoundedDown ==
    /\ pc = "loop"
    /\ position > 0
    /\ position_size_pct = 100
    /\ capital > 0
    /\ capital < entry_price

---------------------------------------------------------------------------
(* IEEE 754 binary64 arithmetic, for the one computation whose rounding    *)
(* decides a result (the risk/reward ratio).  A natural number of any      *)
(* size is the sequence of its digits in base LimbBase, least significant  *)
(* first, without leading zeros; a positive double is m * 2^e with a       *)
(* mantissa m of exactly MantissaBits bits.  Results are rounded to        *)
(* nearest, ties to even, as the hardware does; every value met here is    *)
(* positive or zero and in the normal range.  Intermediate values are      *)
(* bound by one-element sets, The({body : v \in {value}}), so that each is *)
(* computed once.                                                          *)

LimbBits == 14
LimbBase == 2 ^ LimbBits
MantissaBits == 53

\* the element of a one-element set
The(S) == CHOOSE v \in S : TRUE

RECURSIVE BigOf(_)
BigOf(n0) ==
    The({IF n = 0 THEN <<>> ELSE <<n % LimbBase>> \o BigOf(n \div LimbBase) :
         n \in {n0}})

\* a without its leading zeros
BigTrim(a0) ==
    The({IF \A k \in 1..Len(a) : a[k] = 0 THEN <<>>
         ELSE SubSeq(a, 1, CHOOSE k \in 1..Len(a) :
                               a[k] # 0 /\ \A j \in (k + 1)..Len(a) : a[j] = 0) :
         a \in {a0}})

Limb(a, k) == IF k <= Len(a) THEN a[k] ELSE 0

\* the digits of a column-wise sum, carries propagated from position k on
RECURSIVE BigCarry(_, _, _)
BigCarry(cols0, k0, carry0) ==
    The({IF k > Len(cols)
         THEN (IF carry = 0 THEN <<>> ELSE BigOf(carry))
         ELSE <<(cols[k] + carry) % LimbBase>>
                  \o BigCarry(cols, k + 1, (cols[k] + carry) \div LimbBase) :
         cols \in {cols0}, k \in {k0}, carry \in {carry0}})

BigAdd(a0, b0) ==
    The({BigCarry([k \in 1..(IF Len(a) >= Len(b) THEN Len(a) ELSE Len(b)) |->
                      Limb(a, k) + Limb(b, k)], 1, 0) :
         a \in {a0}, b \in {b0}})

\* the digits of a - b from position k on, for a >= b
RECURSIVE BigBorrow(_, _, _, _)
BigBorrow(a0, b0, k0, borrow0) ==
    The({IF k > Len(a) THEN <<>>
         ELSE IF a[k] - Limb(b, k) - borrow < 0
         THEN <<a[k] - Limb(b, k) - borrow + LimbBase>> \o BigBorrow(a, b, k + 1, 1)
         ELSE <<a[k] - Limb(b, k) - borrow>> \o BigBorrow(a, b, k + 1, 0) :
         a \in {a0}, b \in {b0}, k \in {k0}, borrow \in {borrow0}})

\* a - b for a >= b
BigSub(a, b) == BigTrim(BigBorrow(a, b, 1, 0))

BigLess(a0, b0) ==
    The({\/ Len(a) < Len(b)
         \/ /\ Len(a) = Len(b)
            /\ \E k \in 1..Len(a) :
                   a[k] < b[k] /\ \A j \in (k + 1)..Len(a) : a[j] = b[j] :
         a \in {a0}, b \in {b0}})

\* the sum of a[j] * b[k + 1 - j] over the j's of js
RECURSIVE ColumnSum(_, _, _, _)
ColumnSum(a, b, k, js) ==
    IF js = {} THEN 0
    ELSE The({a[j] * b[k + 1 - j] + ColumnSum(a, b, k, js \ {j}) :
              j \in {CHOOSE x \in js : TRUE}})

\* a * b for mantissas (at most four digits each)
BigMul(a0, b0) ==
    The({IF a = <<>> \/ b = <<>> THEN <<>>
         ELSE BigTrim(BigCarry(
                  [k \in 1..(Len(a) + Len(b) - 1) |->
                      ColumnSum(a, b, k,
                                {j \in 1..Len(a) : k + 1 - j \in 1..Len(b)})],
                  1, 0)) :
         a \in {a0}, b \in {b0}})

\* a * 2^s
BigShiftLeft(a0, s0) ==
    The({IF a = <<>> THEN <<>>
         ELSE BigTrim(BigCarry(
                  [k \in 1..(s \div LimbBits + Len(a)) |->
                      IF k <= s \div LimbBits THEN 0
                      ELSE a[k - s \div LimbBits] * 2 ^ (s % LimbBits)],
                  1, 0)) :
         a \in {a0}, s \in {s0}})

\* rest \div f for a power f of two below LimbBase
BigShiftDown(rest, f) ==
    BigTrim([k \in 1..Len(rest) |->
                (rest[k] \div f) + (Limb(rest, k + 1) % f) * (LimbBase \div f)])

\* a \div 2^s
BigShiftRight(a0, s0) ==
    The({The({BigShiftDown(rest, f) :
              rest \in {IF s \div LimbBits >= Len(a) THEN <<>>
                        ELSE SubSeq(a, s \div LimbBits + 1, Len(a))},
              f \in {2 ^ (s % LimbBits)}}) :
         a \in {a0}, s \in {s0}})

RECURSIVE SmallBitLength(_)
SmallBitLength(n0) ==
    The({IF n = 0 THEN 0 ELSE 1 + SmallBitLength(n \div 2) : n \in {n0}})

BigBitLength(a0) ==
    The({IF a = <<>> THEN 0
         ELSE LimbBits * (Len(a) - 1) + SmallBitLength(a[Len(a)]) :
         a \in {a0}})

BigIsOdd(a0) == The({a # <<>> /\ a[1] % 2 = 1 : a \in {a0}})

\* one step of restoring division: twice = 2 * remainder against d
DivideStep(twice, d) ==
    IF BigLess(twice, d) THEN [quotient |-> <<>>, remainder |-> twice]
    ELSE [quotient |-> <<1>>, remainder |-> BigSub(twice, d)]

\* rem * 2^steps divided by d, for rem < d, by restoring division; the
\* steps are halved to keep the evaluation shallow
RECURSIVE BigDivide(_, _, _)
BigDivide(rem0, d0, steps0) ==
    The({IF steps = 1
         THEN The({DivideStep(twice, d) : twice \in {BigShiftLeft(rem, 1)}})
         ELSE The({The({[quotient  |-> BigAdd(BigShiftLeft(high.quotient,
                                                           steps \div 2),
                                              low.quotient),
                         remainder |-> low.remainder] :
                        low \in {BigDivide(high.remainder, d, steps \div 2)}}) :
                   high \in {BigDivide(rem, d, steps - steps \div 2)}}) :
         rem \in {rem0}, d \in {d0}, steps \in {steps0}})

DoubleZero == [m |-> <<>>, e |-> 0]

\* q * 2^e with q of MantissaBits or MantissaBits + 1 bits
Renormalized(q, e) ==
    IF BigBitLength(q) > MantissaBits
    THEN [m |-> BigShiftRight(q, 1), e |-> e + 1]
    ELSE [m |-> q, e |-> e]

\* n = q * 2^s + r with r < 2^s, rounded to q or q + 1, ties to even
RoundedUp(q, r, half) ==
    IF BigLess(half, r) \/ (r = half /\ BigIsOdd(q)) THEN BigAdd(q, <<1>>) ELSE q

\* the double nearest to n * 2^e for n of len bits
RoundAt(n, e, len) ==
    IF len <= MantissaBits
    THEN [m |-> BigShiftLeft(n, MantissaBits - len), e |-> e - (MantissaBits - len)]
    ELSE The({The({Renormalized(q2, e + len - MantissaBits) :
                   q2 \in {RoundedUp(q, BigSub(n, BigShiftLeft(q, len - MantissaBits)),
                                     BigShiftLeft(<<1>>, len - MantissaBits - 1))}}) :
              q \in {BigShiftRight(n, len - MantissaBits)}})

\* the double nearest to n * 2^e, ties to even
RoundToDouble(n0, e0) ==
    The({IF n = <<>> THEN DoubleZero ELSE RoundAt(n, e, BigBitLength(n)) :
         n \in {n0}, e \in {e0}})

DoubleOf(n) == RoundToDouble(BigOf(n), 0)

DoubleMul(x0, y0) ==
    The({RoundToDouble(BigMul(x.m, y.m), x.e + y.e) : x \in {x0}, y \in {y0}})

\* the two mantissas brought to the exponent e, the smaller of the two
Aligned(x, y, e) ==
    [a |-> BigShiftLeft(x.m, x.e - e), b |-> BigShiftLeft(y.m, y.e - e), e |-> e]

DoubleAdd(x0, y0) ==
    The({IF x.m = <<>> THEN y
         ELSE IF y.m = <<>> THEN x
         ELSE The({RoundToDouble(BigAdd(al.a, al.b), al.e) :
                   al \in {Aligned(x, y, IF x.e <= y.e THEN x.e ELSE y.e)}}) :
         x \in {x0}, y \in {y0}})

\* x - y for x >= y >= 0
DoubleSub(x0, y0) ==
    The({IF y.m = <<>> THEN x
         ELSE The({RoundToDouble(BigSub(al.a, al.b), al.e) :
                   al \in {Aligned(x, y, IF x.e <= y.e THEN x.e ELSE y.e)}}) :
         x \in {x0}, y \in {y0}})

DoubleLess(x0, y0) ==
    The({IF y.m = <<>> THEN FALSE
         ELSE IF x.m = <<>> THEN TRUE
         ELSE x.e < y.e \/ (x.e = y.e /\ BigLess(x.m, y.m)) :
         x \in {x0}, y \in {y0}})

\* the quotient of MantissaBits + 2 bits with a sticky bit below it
WithSticky(first, d) ==
    BigAdd(BigShiftLeft(BigAdd(IF first THEN BigShiftLeft(<<1>>, MantissaBits + 2)
                               ELSE <<>>, d.quotient), 1),
           IF d.remainder = <<>> THEN <<>> ELSE <<1>>)

\* x / y for x >= 0, y > 0: MantissaBits + 2 quotient bits and a sticky bit
DoubleDiv(x0, y0) ==
    The({IF x.m = <<>> THEN DoubleZero
         ELSE The({The({RoundToDouble(WithSticky(first, d),
                                      x.e - y.e - (MantissaBits + 2) - 1) :
                        d \in {BigDivide(IF first THEN BigSub(x.m, y.m) ELSE x.m,
                                         y.m, MantissaBits + 2)}}) :
                   first \in {~BigLess(x.m, y.m)}}) :
         x \in {x0}, y \in {y0}})

---------------------------------------------------------------------------
(* rank_opportunities with the risk/reward ratio computed in binary64, as   *)
(* the program computes it.  Prices are whole dollars, and stop_loss_pct,  *)
(* signal strengths and min_ratio are the doubles that the decimal         *)
(* literals with two places denote.                                        *)

MaxRatioPrice == 12
RatioPrices == 1..MaxRatioPrice
RatioStrengths == {-30, 55, 75, 80}     \* hundredths

\* the double denoted by the decimal literal k / 100
DecimalLiteral(k) == DoubleDiv(DoubleOf(k), DoubleOf(100))

\* the literals of the configuration and of the inputs, tabulated; joining
\* the empty function makes the table an explicit one, computed once
Literals == {5, 150} \cup {s \in RatioStrengths : s > 0}
Hundredths == [k \in Literals |-> DecimalLiteral(k)] @@ <<>>
Two64 == DoubleOf(2)

\* entry_price * (1 - self.stop_loss_pct)
calculate_stop_loss64(cfg, entry) ==
    DoubleMul(entry, DoubleSub(DoubleOf(1), Hundredths[cfg.stop_loss_pct]))

\* entry_price + entry_price * self.stop_loss_pct * risk_reward_ratio
calculate_take_profit64(cfg, entry, risk_reward_ratio) ==
    LET risk_amount   == DoubleMul(entry, Hundredths[cfg.stop_loss_pct])
        reward_amount == DoubleMul(risk_amount, risk_reward_ratio)
    IN  DoubleAdd(entry, reward_amount)

\* calculate_risk_reward_ratio for the candidate <<price, signal_strength>>
calculate_risk_reward_ratio64(cfg, acct, price, strength) ==
    LET current_price     == DoubleOf(price)
        position_result   == calculate_position_size(cfg, 0, 0, price,
                                 acct.portfolio_value, 0)
        stop_loss         == calculate_stop_loss64(cfg, current_price)
        take_profit       == calculate_take_profit64(cfg, current_price, Two64)
        risk_per_share    == DoubleSub(current_price, stop_loss)
        reward_per_share  == DoubleSub(take_profit, current_price)
        risk_reward_ratio == DoubleDiv(reward_per_share, risk_per_share)
        signal_strength   == IF strength > 0 THEN Hundredths[strength] ELSE DoubleZero
        adjusted_ratio    == DoubleMul(risk_reward_ratio, signal_strength)
    IN  IF ~position_result.approved
        THEN <<DoubleZero, [error |-> position_result.reason]>>
        ELSE IF position_result.cost = 0
        THEN <<DoubleZero, [error |-> "Position size too small"]>>
        ELSE IF risk_per_share = DoubleZero
        THEN <<DoubleZero, [error |-> "Invalid risk calculation"]>>
        ELSE <<adjusted_ratio,
               [current_price         |-> current_price,
                stop_loss             |-> stop_loss,
                take_profit           |-> take_profit,
                risk_per_share        |-> risk_per_share,
                reward_per_share      |-> reward_per_share,
                risk_reward_ratio     |-> risk_reward_ratio,
                signal_strength       |-> strength,
                adjusted_ratio        |-> adjusted_ratio,
                position_size_dollars |-> position_result.cost]>>

Rank64Config == [max_position_size |-> 10, max_daily_loss |-> 5,
                 stop_loss_pct |-> 5, max_positions |-> 2]
Rank64Account == [portfolio_value |-> 1000]

\* calculate_risk_reward_ratio, a pure function, tabulated over the candidates
RatioOf ==
    [c \in RatioPrices \X RatioStrengths |->
        calculate_risk_reward_ratio64(Rank64Config, Rank64Account, c[1], c[2])]
    @@ <<>>

RECURSIVE Analyses64OfLen(_)
Analyses64OfLen(n) ==
    IF n = 0 THEN {<<>>}
    ELSE {Append(t, [symbol          |-> RankSymbols[n],
                     recommendation  |-> "BUY",
                     current_price   |-> p,
                     signal_strength |-> s]) :
            t \in Analyses64OfLen(n - 1), p \in RatioPrices, s \in RatioStrengths}

\* none, one or two candidates
Analyses64Lists == {<<>>} \cup Analyses64OfLen(1) \cup Analyses64OfLen(2)

\* the loop of rank_opportunities over ans[k..]
RECURSIVE Qualified64(_, _, _)
Qualified64(ans, minimum, k) ==
    IF k > Len(ans) THEN <<>>
    ELSE LET an   == ans[k]
             rr   == RatioOf[<<an.current_price, an.signal_strength>>]
             rest == Qualified64(ans, minimum, k + 1)
         IN  IF an.recommendation \notin {"BUY", "STRONG_BUY"} THEN rest
             ELSE IF "error" \in DOMAIN rr[2] THEN rest
             ELSE IF DoubleLess(rr[1], Hundredths[minimum]) THEN rest
             ELSE <<[symbol |-> an.symbol, analysis |-> an,
                     risk_reward_ratio |-> rr[1], details |-> rr[2]]>> \o rest

\* list.sort(key=..., reverse=True): stable, highest ratio first
RECURSIVE SortByRatioDescending64(_)
SortByRatioDescending64(opps) ==
    IF Len(opps) <= 1 THEN opps
    ELSE LET n      == Len(opps)
             sorted == SortByRatioDescending64(SubSeq(opps, 1, n - 1))
             x      == opps[n]
             ahead  == Cardinality({j \in 1..(n - 1) :
                          ~DoubleLess(sorted[j].risk_reward_ratio, x.risk_reward_ratio)})
         IN  SubSeq(sorted, 1, ahead) \o <<x>> \o SubSeq(sorted, ahead + 1, n - 1)

RankOpportunities64 ==
    /\ pc = "rank64"
    /\ opportunities' = SortByRatioDescending64(Qualified64(analyses, min_ratio, 1))
    /\ pc' = "ranked64"
    /\ UNCHANGED <<data, initial_capital, position_size_pct, btLocals, results,
                   analysis, sigVars, rsiVars, riskVars, account, analyses,
                   min_ratio, allocVars, scanVars, previous>>

InitRank64 ==
    /\ risk_config = Rank64Config
    /\ daily_pnl = 0
    /\ starting_portfolio_value = 0
    /\ last_call = <<>>
    /\ account = Rank64Account
    /\ analyses \in Analyses64Lists
    /\ min_ratio = 150
    /\ opportunities = <<>>
    /\ BacktestIdle
    /\ SigIdle /\ RsiIdle /\ AllocIdle /\ ScanIdle /\ ReplayIdle
    /\ pc = "rank64"

NextRank64 == RankOpportunities64

SpecRank64 == InitRank64 /\ [][NextRank64]_vars

Ranked64(symbol) ==
    \E j \in 1..Len(opportunities) : opportunities[j].symbol = symbol

\* C29: the unscaled ratio (take_profit - price) / (price - stop_loss) is the
\* take-profit multiple 2.0 whatever the price, so the scaled ratio is
\* exactly 2.0 * max(0, signal_strength); with min_ratio = 1.5 a candidate
\* qualifies in rank_opportunities if and only if its signal_strength is
\* >= 0.75, and ranking by ratio is ranking by signal strength.
C29_RatioIsTwiceStrength ==
    pc = "ranked64" =>
        /\ \A k \in 1..Len(analyses) :
               Ranked64(analyses[k].symbol) <=> analyses[k].signal_strength >= 75
        /\ \A j \in 1..Len(opportunities) :
               /\ opportunities[j].details.risk_reward_ratio = Two64
               /\ opportunities[j].risk_reward_ratio =
                      DoubleMul(Two64,
                                Hundredths[opportunities[j].analysis.signal_strength])
        /\ \A j \in 1..(Len(opportunities) - 1) :
               opportunities[j].analysis.signal_strength
                   >= opportunities[j + 1].analysis.signal_strength

\* What the code does: the rounded quotient is 2.0 for some prices and
\* slightly less for the others, never more; a candidate qualifies when its
\* strength is above 0.75, or is 0.75 at a price whose quotient is 2.0.
QualifiesWhenRoundedRatioAllows ==
    pc = "ranked64" =>
        \A k \in 1..Len(analyses) :
            LET an    == analyses[k]
                ratio == RatioOf[<<an.current_price, an.signal_strength>>][2].risk_reward_ratio
            IN  /\ ~DoubleLess(Two64, ratio)
                /\ Ranked64(an.symbol) <=>
                       \/ an.signal_strength > 75
                       \/ an.signal_strength = 75 /\ ratio = Two64

---------------------------------------------------------------------------
(* PaperTrader.place_market_order on top of RiskManager.validate_trade     *)

\* what get_account_info returns: {} after an exception, or the account
NoAccount == [k |-> "empty"]
AccountInfos == {NoAccount} \cup {[portfolio_value |-> v] : v \in {0, 1000}}

\* what get_latest_price returns; 0 stands for None and 0.0, both falsy
TraderPrices == {0} \cup RiskPrices

\* account_info.get('portfolio_value', 0)
PortfolioValueOf(account_info) ==
    IF "portfolio_value" \in DOMAIN account_info THEN account_info.portfolio_value
    ELSE 0

\* place_market_order up to submit_order: the order is submitted unless the
\* price is missing or the validation of a buy is not approved
PlaceMarketOrder ==
    /\ pc = "risk"
    /\ \E qty \in TradeShares, side \in TradeActions, validate_risk \in BOOLEAN,
          current_price \in TraderPrices, account_info \in AccountInfos :
         LET validated == current_price # 0 /\ validate_risk /\ side = "buy"
             value     == PortfolioValueOf(account_info)
             r         == should_stop_trading(risk_config, daily_pnl,
                                              starting_portfolio_value, value)
             validation == validate_trade(risk_config, r[1], qty, current_price,
                                          "buy", value)
         IN  /\ daily_pnl' = IF validated THEN r[2] ELSE daily_pnl
             /\ last_call' =
                  [tick |-> Tick, op |-> "place_market_order", qty |-> qty,
                   side |-> side, validate_risk |-> validate_risk,
                   current_price |-> current_price, account_info |-> account_info,
                   submitted |-> /\ current_price # 0
                                 /\ validated => validation.approved]
    /\ UNCHANGED <<risk_config, starting_portfolio_value>>

NextTrader ==
    /\ \/ SetStartingPortfolioValue
       \/ ValidateTrade
       \/ PlaceMarketOrder
    /\ UNCHANGED <<data, initial_capital, position_size_pct, btLocals, results,
                   analysis, pc, sigVars, rsiVars, rankVars, allocVars,
                   scanVars, previous>>

SpecTrader == InitRisk /\ [][NextTrader]_vars

\* the last call was a validate_trade that approved a buy
ApprovedBuy ==
    /\ last_call.op = "validate_trade"
    /\ last_call.action = "buy"
    /\ last_call.result.approved

\* the last call was a place_market_order that submitted a validated buy
SubmittedValidatedBuy ==
    /\ last_call.op = "place_market_order"
    /\ last_call.side = "buy"
    /\ last_call.validate_risk
    /\ last_call.submitted

\* C30: validate_trade never approves a buy whose cost shares * price
\* exceeds max_position_size * portfolio_value, also when portfolio_value is
\* missing or zero and when the starting value was never set; so
\* place_market_order with validate_risk=True never submits such a buy.
C30_NoBuyAboveLimit ==
    /\ ApprovedBuy =>
           100 * last_call.shares * last_call.price
               <= risk_config.max_position_size * last_call.portfolio_value
    /\ SubmittedValidatedBuy =>
           100 * last_call.qty * last_call.current_price
               <= risk_config.max_position_size
                      * PortfolioValueOf(last_call.account_info)

\* What the code does: the limit is enforced only when the portfolio value
\* is positive.
NoBuyAboveLimitOfPositiveValue ==
    /\ (ApprovedBuy /\ last_call.portfolio_value > 0) =>
           100 * last_call.shares * last_call.price
               <= risk_config.max_position_size * last_call.portfolio_value
    /\ (SubmittedValidatedBuy /\ PortfolioValueOf(last_call.account_info) > 0) =>
           100 * last_call.qty * last_call.current_price
               <= risk_config.max_position_size
                      * PortfolioValueOf(last_call.account_info)

===========================================================================
